---------------------------- MODULE Spec2Model ----------------------------
(***************************************************************************)
(* Model of the switched-reluctance-motor drive core of SRM-StrainGauge:   *)
(* the current-control interrupt gateControl, the strain-sampling and      *)
(* learning interrupt StrainGaugeRead (srmcode.c) and the reference and    *)
(* hysteresis routines they call (KlabIMP.c).                              *)
(*                                                                         *)
(* Number representation.  The program computes in FLOAT32; the model      *)
(* computes the same expressions in exact arithmetic.                      *)
(*   - currents (reference, feedback, band, step, compensation) are        *)
(*     integers in units of 0.1 A;                                         *)
(*   - angles are integers in units of 1/46080 of a turn, the coarsest     *)
(*     unit in which one encoder count (1/1024 turn), one degree and       *)
(*     120 degrees are all whole numbers;                                  *)
(*   - strain values are exact rationals <<num, den>> (den > 0, lowest     *)
(*     terms) of 0.001 strain units; the reference profile strain_ref is   *)
(*     the source table rounded to that unit.                              *)
(***************************************************************************)
EXTENDS Integers, Naturals, Sequences, FiniteSets, TLC

(***************************************************************************)
(* Program constants.                                                      *)
(***************************************************************************)
ENCODER_MAX_COUNT == 1023
N_FFT == 32
\* the literal table length used by the decimation and interpolation loops
TABLE_LEN == 1024
\* abz_prev - rotateValue.abz > 500 : the revolution-boundary threshold
WRAP_THRESHOLD == 500
\* the calibration sub-range  for (n_offset = 801; n_offset < 1001; ...)
OFFSET_FIRST == 801
OFFSET_END == 1001
OFFSET_COUNT == 200
\* gateSignalSequence = 4095 : the all-HIGH code
ALL_HIGH == 4095
\* compensation[n_com] = -100 (A), in 0.1 A
SENTINEL == -1000
\* INT32 abz_prev = 1024
ABZ_PREV_INIT == 1024
\* INT32 factor_cal_time = 1
factor_cal_time == 1
\* MW_main: MAX_PHASE_CURRENT = 13 (A), hysterisis_limit = 1 (A),
\* A_aligned_encoder_count = 5
MAX_PHASE_CURRENT == 130
hysterisis_limit == 10
A_aligned_encoder_count == 5
\* FLOAT32 hy_band = 0.1, in 0.001 strain units
hy_band == 100
\* FLOAT32 AdjustTorque = 0.25 as the divisor 4
ADJUST_TORQUE_DEN == 4
\* per-phase codes of generate_phase_gateSignalSequence
HIGH == 15
HOLD == 14
LOW == 10

(***************************************************************************)
(* Angle units: PI_2 (one turn), PI_2OVER3, DEG2RADCOEFF (one degree) and  *)
(* PI_2 / (ENCODER_MAX_COUNT + 1) (one encoder count).                     *)
(***************************************************************************)
\* KlabVector.c: the free-run counter counts 0 .. 1e9 - 1, (INT32)1e9
TICK_MODULUS == 1000000000
\* rpm = 20 / (timerDiff * 2e-8): 20 / 2e-8 ticks
RPM_TICKS == 1000000000
\* omega = rpm * PI_2 / 5
OMEGA_DEN == 5
\* the largest INT32
INT32_MAX == 2147483647

PI_2 == 46080
PI_2OVER3 == 15360
DEG2RADCOEFF == 128
THETA_PER_COUNT == 45

(***************************************************************************)
(* Bounds of the model.                                                    *)
(***************************************************************************)
MaxH == 2
MaxLearnTicks == 3
FullLearnTicks == 1
FullWrites == 2
MaxCtlTicks == 2
MaxWrites == 1
MaxImpCalls == 3
MaxSpeedCalls == 2
PreemptLearnTicks == 2
PreemptCtlTicks == 1

Bins == 0 .. ENCODER_MAX_COUNT
FftBins == 0 .. (N_FFT - 1)

(***************************************************************************)
(* Exact rational arithmetic for the FLOAT32 strain quantities.            *)
(***************************************************************************)
RECURSIVE Gcd(_, _)
Gcd(a, b) == IF b = 0 THEN a ELSE Gcd(b, a % b)

Abs(a) == IF a < 0 THEN -a ELSE a

RNorm(n, d) ==
  IF n = 0 THEN <<0, 1>>
  ELSE LET g == Gcd(Abs(n), d) IN <<n \div g, d \div g>>

R(i) == <<i, 1>>
RZero == <<0, 1>>
RAdd(a, b) ==
  IF b[1] = 0 THEN a
  ELSE IF a[1] = 0 THEN b
  ELSE RNorm(a[1] * b[2] + b[1] * a[2], a[2] * b[2])
RNeg(a) == <<-a[1], a[2]>>
RSub(a, b) == RAdd(a, RNeg(b))
\* a * (p / q) with integers p >= 0, q > 0
RScale(a, p, q) == RNorm(a[1] * p, a[2] * q)
RDivInt(a, k) == RNorm(a[1], a[2] * k)
RLess(a, b) == a[1] * b[2] < b[1] * a[2]
\* a * ((k - n) / k) + b * (n / k) with integers 0 <= n < k
RLerp(a, b, n, k) ==
  IF a = b \/ n = 0 THEN a
  ELSE RNorm(a[1] * (k - n) * b[2] + b[1] * n * a[2], a[2] * b[2] * k)
RMul(a, b) == RNorm(a[1] * b[1], a[2] * b[2])
\* a + b over the least common denominator
RPlus(a, b) ==
  LET g == Gcd(a[2], b[2])
  IN  RNorm(a[1] * (b[2] \div g) + b[1] * (a[2] \div g), (a[2] \div g) * b[2])

(***************************************************************************)
(* FLOAT32 strain_ref[ENCODER_MAX_COUNT + 1]: the static reference profile *)
(* of the strain-gauge output, rounded to 0.001 (entry n+1 is bin n).      *)
(***************************************************************************)
strain_ref_table == <<
  90, 99, 108, 116, 122, 135, 144, 147, 159, 167, 178, 185, 194, 202, 209, 222,
  227, 239, 249, 257, 263, 277, 284, 300, 299, 315, 321, 337, 338, 354, 355, 370,
  386, 390, 398, 410, 419, 422, 427, 444, 447, 447, 465, 467, 471, 489, 493, 501,
  502, 522, 519, 532, 539, 540, 559, 559, 561, 578, 575, 591, 590, 608, 607, 617,
  627, 630, 640, 642, 651, 659, 661, 676, 686, 687, 689, 707, 714, 715, 718, 739,
  739, 740, 754, 762, 758, 771, 780, 780, 792, 801, 800, 806, 821, 820, 820, 839,
  837, 837, 855, 852, 863, 865, 863, 884, 885, 886, 889, 901, 911, 902, 915, 926,
  926, 921, 944, 945, 944, 944, 963, 962, 956, 974, 972, 971, 983, 992, 986, 986,
  1007, 1004, 997, 1017, 1016, 1013, 1023, 1027, 1030, 1028, 1029, 1041, 1041, 1053, 1053, 1042,
  1054, 1054, 1066, 1059, 1053, 1072, 1070, 1070, 1065, 1076, 1087, 1086, 1085, 1083, 1083, 1083,
  1093, 1093, 1092, 1091, 1106, 1104, 1098, 1107, 1111, 1105, 1104, 1118, 1119, 1108, 1120, 1120,
  1109, 1131, 1115, 1128, 1127, 1116, 1139, 1138, 1132, 1126, 1144, 1138, 1138, 1137, 1136, 1147,
  1147, 1140, 1139, 1157, 1145, 1144, 1160, 1160, 1146, 1156, 1166, 1150, 1160, 1170, 1170, 1170,
  1160, 1164, 1176, 1165, 1172, 1172, 1160, 1183, 1172, 1170, 1182, 1170, 1188, 1177, 1175, 1186,
  1175, 1185, 1184, 1195, 1184, 1188, 1194, 1183, 1191, 1191, 1183, 1200, 1188, 1205, 1193, 1190,
  1209, 1199, 1201, 1201, 1215, 1205, 1211, 1214, 1202, 1219, 1222, 1212, 1217, 1224, 1208, 1233,
  1222, 1222, 1234, 1230, 1218, 1242, 1231, 1231, 1245, 1233, 1232, 1245, 1235, 1233, 1246, 1229,
  1252, 1242, 1240, 1254, 1244, 1230, 1243, 1245, 1228, 1239, 1243, 1229, 1240, 1244, 1233, 1231,
  1245, 1230, 1232, 1236, 1222, 1233, 1236, 1225, 1223, 1232, 1222, 1220, 1232, 1216, 1214, 1228,
  1217, 1204, 1223, 1207, 1204, 1219, 1200, 1198, 1202, 1180, 1200, 1181, 1181, 1184, 1163, 1175,
  1169, 1157, 1171, 1145, 1156, 1150, 1138, 1152, 1133, 1127, 1129, 1128, 1115, 1115, 1116, 1110,
  1098, 1107, 1086, 1088, 1097, 1080, 1081, 1064, 1068, 1052, 1044, 1048, 1029, 1033, 1021, 1013,
  1020, 993, 997, 995, 977, 984, 970, 962, 960, 943, 947, 930, 931, 914, 918, 914,
  898, 893, 899, 874, 882, 860, 868, 855, 849, 846, 831, 828, 812, 808, 791, 794,
  783, 772, 775, 751, 750, 743, 732, 726, 719, 717, 702, 703, 681, 680, 677, 663,
  668, 645, 648, 629, 628, 621, 607, 603, 604, 586, 590, 571, 575, 557, 553, 549,
  547, 532, 528, 526, 514, 514, 496, 496, 493, 483, 479, 470, 465, 462, 449, 444,
  441, 431, 431, 421, 413, 413, 397, 400, 391, 387, 381, 371, 367, 364, 362, 349,
  347, 344, 336, 329, 327, 327, 312, 312, 310, 297, 297, 287, 289, 281, 273, 270,
  267, 268, 254, 254, 248, 246, 243, 235, 237, 225, 227, 217, 217, 214, 204, 204,
  200, 192, 192, 186, 183, 183, 172, 174, 172, 165, 158, 156, 156, 147, 145, 143,
  141, 139, 136, 130, 124, 122, 122, 120, 116, 110, 110, 110, 105, 99, 99, 99,
  93, 89, 87, 85, 85, 81, 79, 76, 74, 73, 72, 70, 66, 61, 60, 60,
  58, 57, 56, 52, 50, 49, 49, 45, 43, 42, 41, 41, 37, 36, 33, 32,
  32, 31, 30, 27, 26, 24, 23, 22, 21, 21, 20, 20, 19, 16, 15, 14,
  14, 13, 13, 10, 10, 10, 9, 7, 6, 6, 5, 4, 4, 4, 3, 3,
  2, 2, 2, 1, 1, 1, 1, 1, 0, 0, 0, 0, 0, 0, 0, 0,
  0, 0, 0, 0, 0, 0, 0, 0, 0, 0, 0, 0, 0, 0, 0, 0,
  0, 0, 0, 0, 0, 0, 0, 0, 0, 0, 0, 0, 0, 0, 0, 0,
  0, 0, 0, 0, 0, 0, 0, 0, 0, 0, 0, 0, 0, 0, 0, 0,
  0, 0, 0, 0, 0, 0, 0, 0, 0, 0, 0, 0, 0, 0, 0, 0,
  0, 0, 0, 0, 0, 0, 0, 0, 0, 0, 0, 0, 0, 0, 0, 0,
  0, 0, 0, 0, 0, 0, 0, 0, 0, 0, 0, 0, 0, 0, 0, 0,
  0, 0, 0, 0, 0, 0, 0, 0, 0, 0, 0, 0, 0, 0, 0, 0,
  0, 0, 0, 0, 0, 0, 0, 0, 0, 0, 0, 0, 0, 0, 0, 0,
  0, 0, 0, 0, 0, 0, 0, 0, 0, 0, 0, 0, 0, 0, 0, 0,
  0, 0, 0, 0, 0, 0, 0, 0, 0, 0, 0, 0, 0, 0, 0, 0,
  0, 0, 0, 0, 0, 0, 0, 0, 0, 0, 0, 0, 0, 0, 0, 0,
  0, 0, 0, 0, 0, 0, 0, 0, 0, 0, 0, 0, 0, 0, 0, 0,
  0, 0, 0, 0, 0, 0, 0, 0, 0, 0, 0, 0, 0, 0, 0, 0,
  0, 0, 0, 0, 0, 0, 0, 0, 0, 0, 0, 0, 0, 0, 0, 0,
  0, 0, 0, 0, 0, 0, 0, 0, 0, 0, 0, 0, 0, 0, 0, 0,
  0, 0, 0, 0, 0, 0, 0, 0, 0, 0, 0, 0, 0, 0, 0, 0,
  0, 0, 0, 0, 0, 0, 0, 0, 0, 0, 0, 0, 0, 0, 0, 0,
  0, 0, 0, 0, 0, 0, 0, 0, 0, 0, 0, 0, 0, 0, 0, 0,
  0, 0, 0, 0, 0, 0, 0, 0, 0, 0, 0, 1, 0, 1, 1, 1,
  1, 1, 1, 1, 1, 1, 1, 1, 1, 1, 1, 1, 1, 1, 1, 1,
  1, 1, 2, 2, 2, 2, 2, 2, 2, 2, 2, 2, 2, 2, 2, 2,
  3, 3, 3, 3, 3, 3, 3, 3, 3, 3, 4, 4, 4, 4, 4, 4,
  4, 4, 4, 5, 5, 5, 5, 5, 5, 5, 5, 6, 6, 6, 6, 7,
  7, 7, 7, 7, 7, 8, 8, 8, 8, 8, 8, 9, 9, 9, 10, 10,
  11, 11, 11, 11, 11, 11, 12, 12, 12, 13, 13, 14, 13, 14, 14, 16,
  18, 20, 22, 24, 26, 27, 28, 32, 34, 36, 38, 40, 41, 45, 46, 48,
  50, 54, 56, 58, 59, 64, 65, 66, 72, 74, 75, 77, 82, 82, 87, 88>>

strain_ref(n) == strain_ref_table[n + 1]

(***************************************************************************)
(* KlabIMP.c: the hysteresis modulator.                                    *)
(***************************************************************************)
\* the comparison chain with its last else returning 15, as in the
\* commented-out variant at the end of the function
generate_phase_gateSignalSequence_open(refCurrent_, fedCurrent_, limit) ==
  IF fedCurrent_ > refCurrent_ - limit /\ fedCurrent_ < refCurrent_ + limit
    THEN HOLD
  ELSE IF fedCurrent_ < refCurrent_ - limit THEN LOW
  ELSE HIGH

generate_phase_gateSignalSequence(refCurrent_, fedCurrent_, limit) ==
  IF fedCurrent_ > refCurrent_ - limit /\ fedCurrent_ < refCurrent_ + limit
    THEN HOLD
  ELSE IF fedCurrent_ < refCurrent_ - limit THEN LOW
  ELSE IF fedCurrent_ > refCurrent_ + limit THEN HIGH
  ELSE HOLD

\* the three codes packed in the reverse phase order
generate_gateSignalSequence_Hysterisis_reversed(ref, fed, limit) ==
  LET u == generate_phase_gateSignalSequence(ref.u, fed.u, limit)
      v == generate_phase_gateSignalSequence(ref.v, fed.v, limit)
      w == generate_phase_gateSignalSequence(ref.w, fed.w, limit)
  IN  w + v * 16 + u * 16 * 16

generate_gateSignalSequence_Hysterisis(ref, fed, limit) ==
  LET u == generate_phase_gateSignalSequence(ref.u, fed.u, limit)
      v == generate_phase_gateSignalSequence(ref.v, fed.v, limit)
      w == generate_phase_gateSignalSequence(ref.w, fed.w, limit)
  IN  u + v * 16 + w * 16 * 16

(***************************************************************************)
(* KlabIMP.c: the rectangular reference waveform.                          *)
(***************************************************************************)
square_phase_deg2rad(deg) == deg * DEG2RADCOEFF

\* the window that wraps through 0 tested with 'and' in place of 'or'
generate_phase_square_reference_noWrap(theta_on, theta_off, peak, theta_in) ==
  LET theta == IF theta_in < 0 THEN theta_in + PI_2 ELSE theta_in
  IN  IF theta_on < theta_off
        THEN (IF theta > theta_on /\ theta < theta_off THEN peak ELSE 0)
      ELSE IF theta_on > theta_off
        THEN (IF theta > theta_on /\ theta < theta_off THEN peak ELSE 0)
      ELSE 0

generate_phase_square_reference(theta_on, theta_off, peak, theta_in) ==
  LET theta == IF theta_in < 0 THEN theta_in + PI_2 ELSE theta_in
  IN  IF theta_on < theta_off
        THEN (IF theta > theta_on /\ theta < theta_off THEN peak ELSE 0)
      ELSE IF theta_on > theta_off
        THEN (IF theta > theta_on \/ theta < theta_off THEN peak ELSE 0)
      ELSE 0

\* the clamping tail of generate_square_reference, applied to one phase:
\* first  if (x < 0) x = 0;  then  if (x > MAX_PHASE_CURRENT) x = MAX
ClampPhase(x, max) ==
  LET lo == IF x < 0 THEN 0 ELSE x
  IN  IF lo > max THEN max ELSE lo

\* the reference with the compensation added after the clamping
generate_square_reference_late(theta_on, theta_off, peak, max, rot, comp) ==
  [u |-> ClampPhase(0, max),
   v |-> ClampPhase(generate_phase_square_reference(
                      theta_on, theta_off, peak, rot.theta - PI_2OVER3), max)
         + comp[rot.abz],
   w |-> ClampPhase(0, max)]

generate_square_reference(theta_on, theta_off, peak, max, rot, comp) ==
  LET u0 == 0
      v0 == generate_phase_square_reference(theta_on, theta_off, peak,
                                            rot.theta - PI_2OVER3)
            + comp[rot.abz]
      w0 == 0
  IN  [u |-> ClampPhase(u0, max),
       v |-> ClampPhase(v0, max),
       w |-> ClampPhase(w0, max)]

(***************************************************************************)
(* KlabIMP.c: the internal-model-principle current controller.  Its        *)
(* currents and voltages are exact rationals of 0.1 A and 0.1 V; the       *)
(* sampling frequency fs is a perfect square, so that sqrtf(fs) is exact.  *)
(* Vectors and matrices are indexed from 0 as in the source.               *)
(***************************************************************************)
Axes == {"d", "q", "zero"}
Vec3(a, b, c) == [i \in 0 .. 2 |-> IF i = 0 THEN a ELSE IF i = 1 THEN b ELSE c]
ZeroVec3 == Vec3(RZero, RZero, RZero)
ZeroMat3 == [i \in 0 .. 2 |-> ZeroVec3]
\* a DISCRETE_FUNC_VALUE of zeros: the static initialiser of the two globals
ZeroFuncValue == [d |-> ZeroVec3, q |-> ZeroVec3, zero |-> ZeroVec3]
\* a DISCRETE_STATE_SPACE of zeros
ZeroStateSpace == [A |-> ZeroMat3, B |-> ZeroVec3, C |-> ZeroMat3,
                   D |-> ZeroVec3]

\* sqrtf(fs) for a perfect square
Sqrt(n) == CHOOSE r \in 0 .. n : r * r = n

\* const FED_GAIN fedGain, rounded to 0.01 (row i+1, column j+1 is
\* Matrix[i][j])
fedGain_table == <<
  <<8616, 422, -1250, -893, 737, -4185, 371, -76, 742, 256, -610, 1005>>,
  <<-171, 9738, -977, -400, 71, -786, -914, 146, -4399, -72, -13, -73>>,
  <<3129, -1301, 8773, -207, -262, -1117, 167, 33, 266, -964, 633, -4268>>
>>
FED_GAIN_DEN == 100
fedGain(i, j) == RNorm(fedGain_table[i + 1][j + 1], FED_GAIN_DEN)

\* the state matrix with the factor 2 of its two off-diagonal entries lost
KLAB_curCtrl_update_ssFunc_damped(ssFunc, rotOmega, fs) ==
  LET omega0 == fs * 2
      tmp_0 == omega0 * omega0
      tmp_1 == 36 * rotOmega * rotOmega
      tmp01 == 6 * omega0 * rotOmega
      sigma1 == tmp_0 + tmp_1
      sigma2 == tmp_0 - tmp_1
      sigma3 == tmp01 + tmp_1
      sigma4 == tmp01 - tmp_1
      sigma5 == 2 * Sqrt(fs)
  IN  [A |-> [ssFunc.A EXCEPT ![0][0] = R(1),
                              ![1][1] = RNorm(sigma2, sigma1),
                              ![1][2] = RNorm(-tmp01, sigma1),
                              ![2][1] = RNorm(tmp01, sigma1),
                              ![2][2] = RNorm(sigma2, sigma1)],
       B |-> Vec3(RNorm(sigma5 * rotOmega, omega0),
                  RNorm(-sigma5 * sigma3, sigma1),
                  RNorm(sigma5 * sigma4, sigma1)),
       C |-> [ssFunc.C EXCEPT ![0][0] = RNorm(sigma5, omega0),
                              ![1][1] = RNorm(sigma5 * omega0, sigma1),
                              ![1][2] = RNorm(-sigma5 * 6 * rotOmega, sigma1),
                              ![2][1] = RNorm(sigma5 * 6 * rotOmega, sigma1),
                              ![2][2] = RNorm(sigma5 * omega0, sigma1)],
       D |-> Vec3(RNorm(-rotOmega, omega0),
                  RNorm(sigma3, sigma1),
                  RNorm(-sigma4, sigma1))]

\* the Tustin-transformed model for the target speed rotOmega; the entries
\* it does not assign keep what ssFunc held
KLAB_curCtrl_update_ssFunc(ssFunc, rotOmega, fs) ==
  LET omega0 == fs * 2
      tmp_0 == omega0 * omega0
      tmp_1 == 36 * rotOmega * rotOmega
      tmp01 == 6 * omega0 * rotOmega
      sigma1 == tmp_0 + tmp_1
      sigma2 == tmp_0 - tmp_1
      sigma3 == tmp01 + tmp_1
      sigma4 == tmp01 - tmp_1
      sigma5 == 2 * Sqrt(fs)
  IN  [A |-> [ssFunc.A EXCEPT ![0][0] = R(1),
                              ![1][1] = RNorm(sigma2, sigma1),
                              ![1][2] = RNorm(-2 * tmp01, sigma1),
                              ![2][1] = RNorm(2 * tmp01, sigma1),
                              ![2][2] = RNorm(sigma2, sigma1)],
       B |-> Vec3(RNorm(sigma5 * rotOmega, omega0),
                  RNorm(-sigma5 * sigma3, sigma1),
                  RNorm(sigma5 * sigma4, sigma1)),
       C |-> [ssFunc.C EXCEPT ![0][0] = RNorm(sigma5, omega0),
                              ![1][1] = RNorm(sigma5 * omega0, sigma1),
                              ![1][2] = RNorm(-sigma5 * 6 * rotOmega, sigma1),
                              ![2][1] = RNorm(sigma5 * 6 * rotOmega, sigma1),
                              ![2][2] = RNorm(sigma5 * omega0, sigma1)],
       D |-> Vec3(RNorm(-rotOmega, omega0),
                  RNorm(sigma3, sigma1),
                  RNorm(-sigma4, sigma1))]

\* Y = C*X + D*u for one axis
KLAB_curCtrl_generate_outputY(ssFunc, stateX, inputU) ==
  Vec3(RPlus(RMul(ssFunc.C[0][0], stateX[0]), RMul(ssFunc.D[0], inputU)),
       RPlus(RPlus(RMul(ssFunc.C[1][1], stateX[1]),
                   RMul(ssFunc.C[1][2], stateX[2])),
             RMul(ssFunc.D[1], inputU)),
       RPlus(RPlus(RMul(ssFunc.C[2][1], stateX[1]),
                   RMul(ssFunc.C[2][2], stateX[2])),
             RMul(ssFunc.D[2], inputU)))

\* X(n+1) = A*X(n) + B*u for one axis
KLAB_curCtrl_update_stateX(ssFunc, stateX, inputU) ==
  LET tmp_0 == RPlus(RMul(ssFunc.A[0][0], stateX[0]),
                     RMul(ssFunc.B[0], inputU))
      tmp_1 == RPlus(RPlus(RMul(ssFunc.A[1][1], stateX[1]),
                           RMul(ssFunc.A[1][2], stateX[2])),
                     RMul(ssFunc.B[1], inputU))
      tmp_2 == RPlus(RPlus(RMul(ssFunc.A[2][1], stateX[1]),
                           RMul(ssFunc.A[2][2], stateX[2])),
                     RMul(ssFunc.B[2], inputU))
  IN  Vec3(tmp_0, tmp_1, tmp_2)

\* tmp_outV[i] -= fedGain.Matrix[i][j] * fedCur_outpuY[j], j = 0 .. 11
RECURSIVE GainRow(_, _, _)
GainRow(i, v, j) ==
  IF j = 12 THEN RZero
  ELSE RPlus(RNeg(RMul(fedGain(i, j), v[j])), GainRow(i, v, j + 1))

\* [feedback current, IMP output Y] as one vector of 12
FedCurOutputY(fedC, Y) ==
  [j \in 0 .. 11 |->
     IF j = 0 THEN fedC.d
     ELSE IF j = 1 THEN fedC.q
     ELSE IF j = 2 THEN fedC.zero
     ELSE IF j < 6 THEN Y.d[j - 3]
     ELSE IF j < 9 THEN Y.q[j - 6]
     ELSE Y.zero[j - 9]]

\* the three state updates moved in front of the three output equations
KLAB_curCtrl_output_outVol_updateFirst(ssFunc, X, refC, fedC) ==
  LET err_d == RSub(refC.d, fedC.d)
      err_q == RSub(refC.q, fedC.q)
      err_0 == RSub(refC.zero, fedC.zero)
      X1 == [d |-> KLAB_curCtrl_update_stateX(ssFunc, X.d, err_d),
             q |-> KLAB_curCtrl_update_stateX(ssFunc, X.q, err_q),
             zero |-> KLAB_curCtrl_update_stateX(ssFunc, X.zero, err_0)]
      Y == [d |-> KLAB_curCtrl_generate_outputY(ssFunc, X1.d, err_d),
            q |-> KLAB_curCtrl_generate_outputY(ssFunc, X1.q, err_q),
            zero |-> KLAB_curCtrl_generate_outputY(ssFunc, X1.zero, err_0)]
      v == FedCurOutputY(fedC, Y)
  IN  [X |-> X1, Y |-> Y,
       outV |-> [d |-> GainRow(0, v, 0), q |-> GainRow(1, v, 0),
                 zero |-> GainRow(2, v, 0)]]

\* what one call leaves in ssFunc_states_X, ssFunc_output_Y and *outV
KLAB_curCtrl_output_outVol(ssFunc, X, refC, fedC) ==
  LET err_d == RSub(refC.d, fedC.d)
      err_q == RSub(refC.q, fedC.q)
      err_0 == RSub(refC.zero, fedC.zero)
      Y == [d |-> KLAB_curCtrl_generate_outputY(ssFunc, X.d, err_d),
            q |-> KLAB_curCtrl_generate_outputY(ssFunc, X.q, err_q),
            zero |-> KLAB_curCtrl_generate_outputY(ssFunc, X.zero, err_0)]
      X1 == [d |-> KLAB_curCtrl_update_stateX(ssFunc, X.d, err_d),
             q |-> KLAB_curCtrl_update_stateX(ssFunc, X.q, err_q),
             zero |-> KLAB_curCtrl_update_stateX(ssFunc, X.zero, err_0)]
      v == FedCurOutputY(fedC, Y)
  IN  [X |-> X1, Y |-> Y,
       outV |-> [d |-> GainRow(0, v, 0), q |-> GainRow(1, v, 0),
                 zero |-> GainRow(2, v, 0)]]

(***************************************************************************)
(* KlabVector.c: the frame transforms.  SQRT_2OVER3, SQRT_1OVER2 and       *)
(* SQRT_1OVER3 are sqrt(6)/3, sqrt(2)/2 and sqrt(3)/3, so a FLOAT32 of the *)
(* transforms is held exactly as [c, den]: the number                      *)
(*   (c[1] + c[2]*sqrt(2) + c[3]*sqrt(3) + c[4]*sqrt(6)) / den             *)
(* with integers c and den > 0, in lowest terms.                           *)
(***************************************************************************)
SNorm(c, den) ==
  LET g == Gcd(Gcd(Gcd(Abs(c[1]), Abs(c[2])), Gcd(Abs(c[3]), Abs(c[4]))), den)
  IN  [c |-> <<c[1] \div g, c[2] \div g, c[3] \div g, c[4] \div g>>,
       den |-> den \div g]
\* the rational number n / d, d > 0
SRat(n, d) == SNorm(<<n, 0, 0, 0>>, d)
SPlus(p, q) ==
  SNorm(<<p.c[1] * q.den + q.c[1] * p.den, p.c[2] * q.den + q.c[2] * p.den,
          p.c[3] * q.den + q.c[3] * p.den, p.c[4] * q.den + q.c[4] * p.den>>,
        p.den * q.den)
SNeg(p) == [c |-> <<-p.c[1], -p.c[2], -p.c[3], -p.c[4]>>, den |-> p.den]
SMinus(p, q) == SPlus(p, SNeg(q))
STimes(p, q) ==
  SNorm(<<p.c[1] * q.c[1] + 2 * p.c[2] * q.c[2] + 3 * p.c[3] * q.c[3]
            + 6 * p.c[4] * q.c[4],
          p.c[1] * q.c[2] + p.c[2] * q.c[1]
            + 3 * (p.c[3] * q.c[4] + p.c[4] * q.c[3]),
          p.c[1] * q.c[3] + p.c[3] * q.c[1]
            + 2 * (p.c[2] * q.c[4] + p.c[4] * q.c[2]),
          p.c[1] * q.c[4] + p.c[4] * q.c[1]
            + p.c[2] * q.c[3] + p.c[3] * q.c[2]>>,
        p.den * q.den)

SQRT_2OVER3 == SNorm(<<0, 0, 0, 1>>, 3)
SQRT_1OVER2 == SNorm(<<0, 1, 0, 0>>, 2)
SQRT_1OVER3 == SNorm(<<0, 0, 1, 0>>, 3)
\* the literal 0.5
ONE_HALF == SRat(1, 2)

\* void KLAB_uvw2dq0(elecValue, rotValue): what it leaves in *elecValue
KLAB_uvw2dq0(elecValue, rotValue) ==
  LET alpha == STimes(SQRT_2OVER3,
                      SMinus(SMinus(elecValue.u,
                                    STimes(ONE_HALF, elecValue.v)),
                             STimes(ONE_HALF, elecValue.w)))
      beta == SMinus(STimes(SQRT_1OVER2, elecValue.v),
                     STimes(SQRT_1OVER2, elecValue.w))
      zero_ab == STimes(SQRT_1OVER3,
                        SPlus(SPlus(elecValue.u, elecValue.v), elecValue.w))
  IN  [elecValue EXCEPT
         !.d = SPlus(STimes(alpha, rotValue.cos), STimes(beta, rotValue.sin)),
         !.q = SPlus(STimes(SNeg(alpha), rotValue.sin),
                     STimes(beta, rotValue.cos)),
         !.zero = zero_ab]

\* the inverse transform turning the frame the same way as the forward one
KLAB_dq02uvw_sameTurn(elecValue, rotValue) ==
  LET alpha == SPlus(STimes(elecValue.d, rotValue.cos),
                     STimes(elecValue.q, rotValue.sin))
      beta == SPlus(STimes(SNeg(elecValue.d), rotValue.sin),
                    STimes(elecValue.q, rotValue.cos))
      zero_ab == elecValue.zero
      half_alpha == STimes(STimes(SNeg(SQRT_2OVER3), ONE_HALF), alpha)
  IN  [elecValue EXCEPT
         !.u = SPlus(STimes(SQRT_2OVER3, alpha),
                     STimes(SQRT_1OVER3, zero_ab)),
         !.v = SPlus(SPlus(half_alpha, STimes(SQRT_1OVER2, beta)),
                     STimes(SQRT_1OVER3, zero_ab)),
         !.w = SPlus(SMinus(half_alpha, STimes(SQRT_1OVER2, beta)),
                     STimes(SQRT_1OVER3, zero_ab))]
\* void KLAB_dq02uvw(elecValue, rotValue): what it leaves in *elecValue
KLAB_dq02uvw(elecValue, rotValue) ==
  LET alpha == SMinus(STimes(elecValue.d, rotValue.cos),
                      STimes(elecValue.q, rotValue.sin))
      beta == SPlus(STimes(elecValue.d, rotValue.sin),
                    STimes(elecValue.q, rotValue.cos))
      zero_ab == elecValue.zero
      half_alpha == STimes(STimes(SNeg(SQRT_2OVER3), ONE_HALF), alpha)
  IN  [elecValue EXCEPT
         !.u = SPlus(STimes(SQRT_2OVER3, alpha),
                     STimes(SQRT_1OVER3, zero_ab)),
         !.v = SPlus(SPlus(half_alpha, STimes(SQRT_1OVER2, beta)),
                     STimes(SQRT_1OVER3, zero_ab)),
         !.w = SPlus(SMinus(half_alpha, STimes(SQRT_1OVER2, beta)),
                     STimes(SQRT_1OVER3, zero_ab))]

(***************************************************************************)
(* KlabVector.c: the speed estimate.  rpm is an exact rational; omega is   *)
(* held in units of PI_2 rad/s (turns per second), so that                 *)
(* omega = rpm * PI_2 / 5 is rpm / 5.                                      *)
(***************************************************************************)
\* a / k for a in lowest terms and an integer k > 0
RQuot(a, k) ==
  LET g == Gcd(Abs(a[1]), k)
  IN  IF a[1] = 0 THEN RZero ELSE <<a[1] \div g, a[2] * (k \div g)>>

\* the elapsed ticks with the wrap test passing on equality as well
speed_timerDiff_orEqual(timer, timerCount) ==
  IF timerCount >= timer
    THEN timerCount - timer
    ELSE timerCount - timer + TICK_MODULUS
\* INT32 timerDiff of KLAB_speedCalc_update_speed
speed_timerDiff(timer, timerCount) ==
  IF timerCount > timer
    THEN timerCount - timer
    ELSE timerCount - timer + TICK_MODULUS

\* what one call leaves in *rotValue
KLAB_speedCalc_update_speed(rotValue, timerCount) ==
  LET timerDiff == speed_timerDiff(rotValue.timer, timerCount)
      \* rpm = 20 / (timerDiff * 2e-8)
      rpm == RNorm(RPM_TICKS, timerDiff)
  IN  [rotValue EXCEPT !.rpm = rpm,
                       !.omega = RQuot(rpm, OMEGA_DEN),
                       !.timer = timerCount]

(***************************************************************************)
(* srmcode.c, StrainGaugeRead: the steps of the learning engine.           *)
(***************************************************************************)
\* the C operator %: the remainder of the division that truncates toward 0
CRem(a, n) == IF a >= 0 THEN a % n ELSE -((-a) % n)

\* the position without ENCODER_MAX_COUNT + 1 added before the remainder
update_position_unbiased(raw, aligned) ==
  CRem(raw - aligned, ENCODER_MAX_COUNT + 1)
\* (PEV_abz_read() + ENCODER_MAX_COUNT + 1 - A_aligned_encoder_count)
\*   % (ENCODER_MAX_COUNT + 1)  for a value of A_aligned_encoder_count
update_position_aligned(raw, aligned) ==
  CRem(raw + ENCODER_MAX_COUNT + 1 - aligned, ENCODER_MAX_COUNT + 1)

\* rotateValue.abz, with A_aligned_encoder_count as MW_main sets it
update_position(raw) ==
  update_position_aligned(raw, A_aligned_encoder_count)

\* the angle with ENCODER_MAX_COUNT as the divisor, rounded down
update_theta_maxCount(abz) == (PI_2 * abz) \div ENCODER_MAX_COUNT
\* rotateValue.theta = PI_2 * rotateValue.abz / (ENCODER_MAX_COUNT + 1)
update_theta(abz) == abz * THETA_PER_COUNT

\* a running average that weighs every new sample by one half
IncrementalMeanHalf(avg, s, count) == RAdd(avg, RDivInt(RSub(s, avg), 2))
\* strain_avg_temp[k] + (strain - strain_avg_temp[k]) / avg_record_times[k]
IncrementalMean(avg, s, count) == RAdd(avg, RDivInt(RSub(s, avg), count))

\* the snapshot taken one visit late
HorizonExceeded_late(count, horizon) == count > horizon + 1
\* the snapshot taken one visit early
HorizonReached(count, horizon) == count >= horizon
\* if (avg_record_times[k] > avg_max_count)
HorizonExceeded(count, horizon) == count > horizon

ZeroTable == [n \in Bins |-> RZero]
ZeroCounts == [n \in Bins |-> 0]

RECURSIVE SumRange(_, _, _)
SumRange(f, a, b) ==
  IF a > b THEN RZero
  ELSE IF a = b THEN f[a]
  ELSE LET m == (a + b) \div 2
       IN  RAdd(SumRange(f, a, m), SumRange(f, m + 1, b))

\* strain_offset: the mean of strain_avg over bins 801 .. 1000
generate_offset(avg) ==
  RDivInt(SumRange(avg, OFFSET_FIRST, OFFSET_END - 1), OFFSET_COUNT)

\* the wrap test with half the table length as its threshold
WrapDetectedHalf(prev, abz) == prev - abz > TABLE_LEN \div 2
\* if (abz_prev - rotateValue.abz > 500)
WrapDetected(prev, abz) == prev - abz > WRAP_THRESHOLD

\* the recompute taken one boundary early
RecomputeDueEarly(count, horizon) == count >= horizon * factor_cal_time
\* if (rotate_period_count_cal > avg_max_count * factor_cal_time)
RecomputeDue(count, horizon) == count > horizon * factor_cal_time

\* x_fft[i] = strain_avg[i * 1024 / N_FFT] - strain_offset
Decimate(avg, offset) ==
  [i \in FftBins |-> RSub(avg[(i * TABLE_LEN) \div N_FFT], offset)]

(***************************************************************************)
(* srmcode.c, dft and idft.  The angles i * k * 6.28318530718 / n of a     *)
(* transform whose length n divides N_FFT are whole multiples of           *)
(* 2*pi/N_FFT.  With c[j] = cos(2*pi*j/N_FFT), the numbers 1 = c[0], c[1], *)
(* ..., c[N_FFT/4 - 1] are linearly independent over the rationals, and    *)
(* every cosine and sine on the grid is +c[j], -c[j] or 0.  A FLOAT32 of   *)
(* the transforms is held exactly as [v, den]: the integer coefficients    *)
(* v[0 .. N_FFT/4 - 1] on c and a positive denominator den.                *)
(***************************************************************************)
TrigBasis == 0 .. (N_FFT \div 4) - 1

\* cos(2*pi*m/N_FFT) as <<sign, j>>, meaning sign * c[j]
CosOnGrid(m) ==
  LET m1 == m % N_FFT
      m2 == IF m1 > N_FFT \div 2 THEN N_FFT - m1 ELSE m1
  IN  IF m2 = N_FFT \div 4 THEN <<0, 0>>
      ELSE IF m2 > N_FFT \div 4 THEN <<-1, (N_FFT \div 2) - m2>>
      ELSE <<1, m2>>

\* the coefficients of cos(2*pi*m/N_FFT) on c
CosCoefTable ==
  [m \in 0 .. N_FFT - 1 |->
     [t \in TrigBasis |->
        IF CosOnGrid(m)[2] = t THEN CosOnGrid(m)[1] ELSE 0]]

\* the coefficients of 2 * cos(2*pi*m/N_FFT) * c[j]
\*   = cos(2*pi*(m+j)/N_FFT) + cos(2*pi*(m-j)/N_FFT)
TwiceCosTimesTable ==
  [m \in 0 .. N_FFT - 1 |->
     [j \in TrigBasis |->
        [t \in TrigBasis |->
           CosCoefTable[(m + j) % N_FFT][t]
             + CosCoefTable[(m - j) % N_FFT][t]]]]

RECURSIVE TwiceCosTimesSum(_, _, _, _)
TwiceCosTimesSum(v, m, t, j) ==
  IF j < 0 THEN 0
  ELSE v[j] * TwiceCosTimesTable[m][j][t] + TwiceCosTimesSum(v, m, t, j - 1)

\* cos(2*pi*m/N_FFT) * value and sin(2*pi*m/N_FFT) * value
CosTimes(m, value) ==
  [v |-> [t \in TrigBasis |->
            TwiceCosTimesSum(value.v, m % N_FFT, t, (N_FFT \div 4) - 1)],
   den |-> 2 * value.den]
SinTimes(m, value) == CosTimes(m - (N_FFT \div 4), value)

\* sums and differences of values of one denominator, and multiples
FPlus(p, q) == [v |-> [t \in TrigBasis |-> p.v[t] + q.v[t]], den |-> p.den]
FMinus(p, q) == [v |-> [t \in TrigBasis |-> p.v[t] - q.v[t]], den |-> p.den]
FNeg(p) == [v |-> [t \in TrigBasis |-> -p.v[t]], den |-> p.den]
FOver(p, n) == [v |-> p.v, den |-> p.den * n]
\* the rational number num / den
FRat(num, den) ==
  [v |-> [t \in TrigBasis |-> IF t = 0 THEN num ELSE 0], den |-> den]
\* p = q as numbers
FEq(p, q) == \A t \in TrigBasis : p.v[t] * q.den = q.v[t] * p.den

\* the position of the angle d = i * w, w = k * q, q = 6.28318530718 / n on
\* the grid
GridAngle(i, k, n) == (i * k * (N_FFT \div n)) % N_FFT

\* a[k] and b[k] after the inner loop  for (i = 0; i < n; i++)  of dft and
\* idft, sgn being 1 for  s = sin(d)  and -1 for  s = sin(d) * (-1)
RECURSIVE TransformSum(_, _, _, _, _, _)
TransformSum(x, y, n, k, sgn, i) ==
  IF i < 0
    THEN [a |-> FRat(0, 2 * x[0].den), b |-> FRat(0, 2 * x[0].den)]
    ELSE LET rest == TransformSum(x, y, n, k, sgn, i - 1)
             d == GridAngle(i, k, n)
             cx == CosTimes(d, x[i])
             cy == CosTimes(d, y[i])
             sx == IF sgn = 1 THEN SinTimes(d, x[i])
                              ELSE FNeg(SinTimes(d, x[i]))
             sy == IF sgn = 1 THEN SinTimes(d, y[i])
                              ELSE FNeg(SinTimes(d, y[i]))
         IN  [a |-> FPlus(rest.a, FPlus(cx, sy)),
              b |-> FPlus(rest.b, FMinus(cy, sx))]

\* void dft(x, y, a, b, n): the arrays a and b it leaves
dft(x, y, n) ==
  LET out == [k \in 0 .. n - 1 |-> TransformSum(x, y, n, k, 1, n - 1)]
  IN  [a |-> [k \in 0 .. n - 1 |-> out[k].a],
       b |-> [k \in 0 .. n - 1 |-> out[k].b]]

\* the inverse transform with the sine of the forward transform
idft_forwardSine(x, y, n) ==
  LET out == [k \in 0 .. n - 1 |-> TransformSum(x, y, n, k, 1, n - 1)]
  IN  [a |-> [k \in 0 .. n - 1 |-> FOver(out[k].a, n)],
       b |-> [k \in 0 .. n - 1 |-> FOver(out[k].b, n)]]
\* void idft(x, y, a, b, n): the arrays a and b it leaves, the second loop
\* (c = 1.0 / n) included
idft(x, y, n) ==
  LET out == [k \in 0 .. n - 1 |-> TransformSum(x, y, n, k, -1, n - 1)]
  IN  [a |-> [k \in 0 .. n - 1 |-> FOver(out[k].a, n)],
       b |-> [k \in 0 .. n - 1 |-> FOver(out[k].b, n)]]

(***************************************************************************)
(* dft, the phase correction and idft.  Bin i of the spectrum is turned by *)
(*   +0.001419 * i * RPM_SET / 5            for i <= N_FFT / 2,            *)
(*   -0.001419 * (N_FFT - i) * RPM_SET / 5  for i >  N_FFT / 2             *)
(* and then transformed back.  The model holds RPM_SET in units of the     *)
(* speed at which 0.001419 * RPM_SET / 5 is 2*pi/N_FFT, the angle of one   *)
(* decimated sample, and covers whole multiples of it: both branches then  *)
(* turn bin i by i * RPM_SET * 2*pi/N_FFT modulo a full turn, and the      *)
(* inverse transform of the turned spectrum of x is x advanced circularly  *)
(* by RPM_SET samples (the shift theorem), with imaginary part 0.          *)
(***************************************************************************)
PhaseCorrect(x, rpm) == [n \in FftBins |-> x[(n + rpm) % N_FFT]]

\* the interpolation with the last segment held at x[N_FFT - 1]
Interpolate_clamped(x) ==
  [i \in Bins |->
     LET kk == TABLE_LEN \div N_FFT
         mm == i \div kk
         nn == i % kk
         mmm == IF mm + 1 = N_FFT THEN mm ELSE mm + 1
     IN  RLerp(x[mm], x[mmm], nn, kk)]
\* strain_avg_ffted[i] = x[mm] * ((kk - nn) / kk) + x[mmm] * (nn / kk)
Interpolate(x) ==
  [i \in Bins |->
     LET kk == TABLE_LEN \div N_FFT
         mm == i \div kk
         nn == i % kk
         mmm == IF mm + 1 = N_FFT THEN 0 ELSE mm + 1
     IN  RLerp(x[mm], x[mmm], nn, kk)]

\* strain_ref[n] * AdjustTorque + hy_band  and  ... - hy_band
UpperBandTable ==
  [n \in Bins |->
     RAdd(RScale(R(strain_ref(n)), 1, ADJUST_TORQUE_DEN), R(hy_band))]
LowerBandTable ==
  [n \in Bins |->
     RSub(RScale(R(strain_ref(n)), 1, ADJUST_TORQUE_DEN), R(hy_band))]
UpperBand(n) == UpperBandTable[n]
LowerBand(n) == LowerBandTable[n]

\* the cutoff test passing on equality as well
BelowOrAtCutoff(n, cutoff) == strain_ref(n) <= cutoff
\* if (strain_ref[n_com] < value_cutoff)
BelowCutoff(n, cutoff) == strain_ref(n) < cutoff

\* the decrease with the sign of the step slipped
StepDownSignSlip(c, step, on) == (c + step) * on
\* the decrease with the enable flag gating the step only
StepDownGated(c, step, on) == c - step * on
\* the first if of the loop body: the decrease
StepDown(c, step, on) == (c - step) * on
\* the second if of the loop body: the increase
StepUp(c, step, on) == (c + step) * on

\* one pass of the loop  for (n_com = 0; n_com < ENCODER_MAX_COUNT + 1; ...)
generate_compensation(comp, ffted, on, step, cutoff) ==
  [n \in Bins |->
     LET c1 == IF RLess(UpperBand(n), ffted[n])
                 THEN StepDown(comp[n], step, on) ELSE comp[n]
         c2 == IF RLess(ffted[n], LowerBand(n))
                 THEN StepUp(c1, step, on) ELSE c1
     IN  IF BelowCutoff(n, cutoff) THEN SENTINEL ELSE c2]

(***************************************************************************)
(* State.  The first group is the configuration surface: globals that the  *)
(* program only reads and that the operator sets through the inspector.    *)
(***************************************************************************)
VARIABLES
  inverter_on,              \* INT inverter_on: the run-enable flag
  Proposed_Method_On,       \* FLOAT32 Proposed_Method_On: 0 or 1
  avg_max_count,            \* INT16 avg_max_count: the averaging horizon
  value_cutoff,             \* FLOAT32 value_cutoff, in 0.001 strain units
  current_step,             \* FLOAT32 current_step, in 0.1 A
  RPM_SET,                  \* FLOAT32 RPM_SET, in sample shifts (PhaseCorrect)
  theta_on_deg,             \* FLOAT32 theta_on_deg
  theta_off_deg,            \* FLOAT32 theta_off_deg
  square_peak,              \* FLOAT32 square_peak, in 0.1 A
  rotateValue,              \* ROTATE_VALUE rotateValue: [abz, theta, sin, cos]
  abz_prev,                 \* INT32 abz_prev
  strain,                   \* FLOAT32 strain: the last strain sample
  avg_record_times,         \* per-bin visit counter
  strain_avg_temp,          \* per-bin running average
  strain_avg,               \* per-bin stable average
  strain_offset,            \* DC offset of the stable average
  rotate_period_count_cal,  \* the accumulation-cycle counter
  x_fft,                    \* the decimated, offset-free stable average
  x_fft_neww,               \* the phase-corrected decimated signal
  strain_avg_ffted,         \* x_fft_neww interpolated to the table length
  compensation,             \* per-bin compensation of the reference current
  fedCurrent,               \* ELECTRIC_VALUE fedCurrent: [u, v, w]
  Idc,                      \* FLOAT32 Idc
  theta_on_rad,             \* FLOAT32 theta_on_rad
  theta_off_rad,            \* FLOAT32 theta_off_rad
  refCurrent,               \* ELECTRIC_VALUE refCurrent: [u, v, w]
  gateSignalSequence,       \* INT16 gateSignalSequence
  gate_out,                 \* codes held by the gate output: <<>> or <<code>>
  SCOPE,                    \* the SCOPE_ snapshots written by scope()
  learn_left,               \* learning ticks still to run (bounds the model)
  ctl_left,                 \* control ticks still to run (bounds the model)
  writes_left,              \* operator writes still to come (bounds the model)
  ever_on,                  \* history: inverter_on has been 1
  last,                     \* history: what the last step did
  acc,                      \* history: per bin, the samples accumulated
                            \* since the last global reset, [sum, n]
  probe,                    \* a call of one function on its own: its
                            \* arguments and, once it has returned, its result
  ssFunction,               \* DISCRETE_STATE_SPACE: the matrices A, B, C, D
  ssFunc_states_X,          \* DISCRETE_FUNC_VALUE ssFunc_states_X
  ssFunc_output_Y,          \* DISCRETE_FUNC_VALUE ssFunc_output_Y
  outVoltage,               \* ELECTRIC_VALUE outVoltage: [d, q, zero]
  imp_left,                 \* controller calls still to run (bounds the model)
  imp_last,                 \* history: the last controller call
  pc,                       \* where StrainGaugeRead stands when its
                            \* statements are taken one at a time: at is "idle"
                            \* when it is not running
  loop_before               \* history: the compensation table as the
                            \* compensation loop of the running tick found it

cfgVars == <<avg_max_count, value_cutoff, current_step, RPM_SET,
             theta_on_deg, theta_off_deg, square_peak>>
learnVars == <<abz_prev, strain, avg_record_times, strain_avg_temp,
               strain_avg, strain_offset, rotate_period_count_cal, x_fft,
               x_fft_neww, strain_avg_ffted, compensation>>
ctlVars == <<fedCurrent, Idc, theta_on_rad, theta_off_rad, refCurrent,
             gateSignalSequence, gate_out>>
impVars == <<ssFunction, ssFunc_states_X, ssFunc_output_Y, outVoltage,
             imp_left, imp_last>>
stepVars == <<pc, loop_before>>

\* StrainGaugeRead standing at a statement, with no store of lines 393 and
\* 394 pending
At(statement) == [at |-> statement, abz |-> 0, stored |-> "none"]
vars == <<inverter_on, Proposed_Method_On, cfgVars, rotateValue, learnVars,
          ctlVars, SCOPE, learn_left, ctl_left, writes_left, ever_on, last,
          acc, probe, impVars, stepVars>>

(***************************************************************************)
(* Inputs of the model.                                                    *)
(***************************************************************************)
\* raw encoder counts returned by PEV_abz_read: bins 0, 512 and 1000
RawCounts == {5, 517, 1005}
\* the two of them that Spec draws from: bins 512 and 1000
FullRawCounts == {517, 1005}
\* strain readings data_ADC[0], in 0.001 strain units
StrainSamples == {0, 2000}
\* what ADC_in_grp can do: fail (return 1), or deliver a reading
AdcReadings ==
  {[ok |-> FALSE, v |-> 0]} \cup {[ok |-> TRUE, v |-> v] : v \in StrainSamples}
\* current readings data[0..3] of PEV_ad_in_grp, in 0.1 A
CurrentSamples == {<<0, 0, 0, 0>>, <<20, -60, 0, 5>>}
\* what PEV_ad_in_grp can do: fail (return 1), or deliver a reading
AdReadings ==
  {[ok |-> FALSE, data |-> <<0, 0, 0, 0>>]}
    \cup {[ok |-> TRUE, data |-> d] : d \in CurrentSamples}
\* settings of value_cutoff, current_step and RPM_SET
LearnConfigs == {[cutoff |-> 0, step |-> 2, rpm |-> 0],
                 [cutoff |-> 50, step |-> 2, rpm |-> 1]}
\* settings of theta_on_deg, theta_off_deg and square_peak; the first is the
\* setting MW_main leaves
SquareConfigs == {[on |-> 0, off |-> 0, peak |-> 0],
                  [on |-> 235, off |-> 100, peak |-> 50]}

(***************************************************************************)
(* scope(): the telemetry snapshots.  outVoltage, omega and rpm are never  *)
(* written by the program and stay 0.                                      *)
(***************************************************************************)
scope(fed, ref, rot, avg, offset, comp, ffted) ==
  [fedIu |-> fed.u, fedIv |-> fed.v, fedIw |-> fed.w,
   abz |-> rot.abz, theta |-> rot.theta,
   refIu |-> ref.u, refIv |-> ref.v, refIw |-> ref.w,
   strain_avg |-> RSub(avg[rot.abz], offset),
   strain_ref |-> RScale(R(strain_ref(rot.abz)), 1, ADJUST_TORQUE_DEN),
   compensation |-> comp[rot.abz],
   strain_avg_ffted |-> ffted[rot.abz]]

\* last: the step taken, what a learning tick did, the values abz_prev and
\* rotate_period_count_cal had when it began, the raw count it read, and
\* whether the current sampler of a control tick delivered
NoEvent == [op |-> "none", snapshot |-> FALSE, wrap |-> FALSE,
            recompute |-> FALSE, prev |-> 0, count |-> 0, raw |-> 0,
            ad_ok |-> TRUE]
NoProbe == [fn |-> "none", done |-> FALSE]
\* imp_last: the controller call taken and its arguments
NoImpCall == [op |-> "none",
              refC |-> [d |-> RZero, q |-> RZero, zero |-> RZero],
              fedC |-> [d |-> RZero, q |-> RZero, zero |-> RZero]]

(***************************************************************************)
(* The state MW_main and the static initialisers leave, for a setting of   *)
(* the configuration surface and a number of ticks to run.                 *)
(***************************************************************************)
InitWith(horizons, learnCfgs, squareCfgs, learnTicks, ctlTicks, writes) ==
  /\ inverter_on = 0
  /\ Proposed_Method_On = 1
  /\ avg_max_count \in horizons
  /\ \E c \in learnCfgs :
       /\ value_cutoff = c.cutoff
       /\ current_step = c.step
       /\ RPM_SET = c.rpm
  /\ \E q \in squareCfgs :
       /\ theta_on_deg = q.on
       /\ theta_off_deg = q.off
       /\ square_peak = q.peak
  /\ rotateValue = [abz |-> 0, theta |-> 0, sin |-> RZero, cos |-> RZero]
  /\ abz_prev = ABZ_PREV_INIT
  /\ strain = 0
  /\ avg_record_times = ZeroCounts
  /\ strain_avg_temp = ZeroTable
  /\ strain_avg = ZeroTable
  /\ strain_offset = RZero
  /\ rotate_period_count_cal = 0
  /\ x_fft = [i \in FftBins |-> RZero]
  /\ x_fft_neww = [i \in FftBins |-> RZero]
  /\ strain_avg_ffted = ZeroTable
  /\ compensation = ZeroCounts
  /\ fedCurrent = [u |-> 0, v |-> 0, w |-> 0]
  /\ Idc = 0
  /\ theta_on_rad = 0
  /\ theta_off_rad = 0
  /\ refCurrent = [u |-> 0, v |-> 0, w |-> 0]
  /\ gateSignalSequence = ALL_HIGH
  /\ gate_out = <<>>
  /\ SCOPE = [fedIu |-> 0, fedIv |-> 0, fedIw |-> 0, abz |-> 0, theta |-> 0,
              refIu |-> 0, refIv |-> 0, refIw |-> 0, strain_avg |-> RZero,
              strain_ref |-> RZero, compensation |-> 0,
              strain_avg_ffted |-> RZero]
  /\ learn_left = learnTicks
  /\ ctl_left = ctlTicks
  /\ writes_left = writes
  /\ ever_on = FALSE
  /\ last = NoEvent
  /\ acc = [k \in {} |-> 0]
  /\ pc = At("idle")
  /\ loop_before = ZeroCounts

\* the controller: a state-space model out of models, the two state globals
\* at their static zeros, and a number of calls to run
InitImpWith(models, calls) ==
  /\ ssFunction \in models
  /\ ssFunc_states_X = ZeroFuncValue
  /\ ssFunc_output_Y = ZeroFuncValue
  /\ outVoltage = [d |-> RZero, q |-> RZero, zero |-> RZero]
  /\ imp_left = calls
  /\ imp_last = NoImpCall

\* srmcode.c leaves the controller out: no model is set, no call is made
ImpIdle == InitImpWith({ZeroStateSpace}, 0)

(***************************************************************************)
(* gateControl: the current-control interrupt.                             *)
(***************************************************************************)
\* a gate stage without the else branch: the hysteresis code always goes out
GateCodeUngated(on, seq) == seq
\* if (inverter_on == 1) the hysteresis code is handed out, else 4095
GateCode(on, seq) == IF on = 1 THEN seq ELSE ALL_HIGH

\* a gate stage whose else branch sets the code and hands nothing out
GateStageEnabledOnly(on, seq) == IF on = 1 THEN <<seq>> ELSE <<>>
\* the codes handed to the gate output by the gate stage, in order: either
\* branch calls PEV_inverter_control_gate once, with gateSignalSequence
GateStage(on, seq) == <<GateCode(on, seq)>>

\* a sampler failure that clears the feedback
update_fedCurrent_cleared(ad, fed) ==
  IF ad.ok
    THEN [u |-> ad.data[1], v |-> -ad.data[2], w |-> ad.data[3]]
    ELSE [u |-> 0, v |-> 0, w |-> 0]
\* if (PEV_ad_in_grp(PEV_BDN, data) != 1) the feedback is taken from data
update_fedCurrent(ad, fed) ==
  IF ad.ok
    THEN [u |-> ad.data[1], v |-> -ad.data[2], w |-> ad.data[3]]
    ELSE fed

\* a reference routine that uses up the compensation it reads
square_reference_compensation_consumed(comp, rot) ==
  [comp EXCEPT ![rot.abz] = 0]
\* what generate_square_reference leaves in the table behind its argument
\* FLOAT32 *compensation: it reads compensation[rotateValue.abz] only
square_reference_compensation(comp, rot) == comp

gateControl(ad) ==
  /\ ctl_left > 0
  /\ LET fed == update_fedCurrent(ad, fedCurrent)
         on_rad == square_phase_deg2rad(theta_on_deg)
         off_rad == square_phase_deg2rad(theta_off_deg)
         ref == generate_square_reference(on_rad, off_rad, square_peak,
                                          MAX_PHASE_CURRENT, rotateValue,
                                          compensation)
         seq == generate_gateSignalSequence_Hysterisis(ref, fed,
                                                       hysterisis_limit)
         code == GateCode(inverter_on, seq)
     IN  /\ fedCurrent' = fed
         /\ Idc' = IF ad.ok THEN ad.data[4] ELSE Idc
         /\ theta_on_rad' = on_rad
         /\ theta_off_rad' = off_rad
         /\ refCurrent' = ref
         /\ gateSignalSequence' = code
         /\ gate_out' = GateStage(inverter_on, seq)
         /\ compensation' = square_reference_compensation(compensation,
                                                          rotateValue)
         /\ SCOPE' = scope(fed, ref, rotateValue, strain_avg, strain_offset,
                           compensation, strain_avg_ffted)
  /\ ctl_left' = ctl_left - 1
  /\ last' = [NoEvent EXCEPT !.op = "gateControl", !.ad_ok = ad.ok]
  /\ UNCHANGED <<abz_prev, strain, avg_record_times, strain_avg_temp,
                 strain_avg, strain_offset, rotate_period_count_cal, x_fft,
                 x_fft_neww, strain_avg_ffted>>
  /\ UNCHANGED <<inverter_on, Proposed_Method_On, cfgVars, rotateValue,
                 learn_left, writes_left, ever_on, acc, probe, impVars,
                 stepVars>>

(***************************************************************************)
(* StrainGaugeRead: the strain-sampling and learning interrupt.            *)
(***************************************************************************)
\* the handler with the test for an unchanged position taken out
ReturnsEarly_never(prev, abz) == FALSE
\* if (abz_prev == rotateValue.abz) return;
ReturnsEarly(prev, abz) == prev = abz

\* what a tick that is not returned early leaves in the learning state: the
\* values of the globals after lines 400-517, for the position abz of the tick
\* and the conversion adc of ADC_in_grp
StrainGaugeRead_processed(abz, adc) ==
  LET s == IF adc.ok THEN adc.v ELSE strain
      times1 == [avg_record_times EXCEPT ![abz] = @ + 1]
      temp1 == [strain_avg_temp EXCEPT
                  ![abz] = IncrementalMean(@, R(s), times1[abz])]
      snap == HorizonExceeded(times1[abz], avg_max_count)
      avg == IF snap THEN temp1 ELSE strain_avg
      offset == generate_offset(avg)
      wrap == WrapDetected(abz_prev, abz)
      count1 == IF wrap THEN rotate_period_count_cal + 1
                        ELSE rotate_period_count_cal
      recompute == wrap /\ RecomputeDue(count1, avg_max_count)
      x == Decimate(avg, offset)
      xn == PhaseCorrect(x, RPM_SET)
      ffted == IF recompute THEN Interpolate(xn) ELSE strain_avg_ffted
      comp == IF recompute
                THEN generate_compensation(compensation, ffted,
                       Proposed_Method_On, current_step, value_cutoff)
                ELSE compensation
      acc1 == [k \in DOMAIN acc \cup {abz} |->
                 IF k = abz
                   THEN (IF k \in DOMAIN acc
                           THEN [sum |-> acc[k].sum + s,
                                 n |-> acc[k].n + 1]
                           ELSE [sum |-> s, n |-> 1])
                   ELSE acc[k]]
  IN  [strain |-> s,
       avg_record_times |-> IF snap THEN ZeroCounts ELSE times1,
       strain_avg_temp |-> IF snap THEN ZeroTable ELSE temp1,
       strain_avg |-> avg,
       strain_offset |-> offset,
       rotate_period_count_cal |-> IF recompute THEN 0 ELSE count1,
       count1 |-> count1,
       x_fft |-> IF recompute THEN x ELSE x_fft,
       x_fft_neww |-> IF recompute THEN xn ELSE x_fft_neww,
       strain_avg_ffted |-> ffted,
       compensation |-> comp,
       acc |-> IF snap THEN [k \in {} |-> 0] ELSE acc1,
       snapshot |-> snap, wrap |-> wrap, recompute |-> recompute]

StrainGaugeRead(raw, adc) ==
  /\ learn_left > 0
  /\ learn_left' = learn_left - 1
  /\ pc.at = "idle"
  /\ LET abz == update_position(raw)
         rot == [rotateValue EXCEPT !.abz = abz, !.theta = update_theta(abz)]
     IN
     /\ rotateValue' = rot
     /\ IF ReturnsEarly(abz_prev, abz)
          THEN \* return before anything else is touched
               /\ last' = [NoEvent EXCEPT !.op = "StrainGaugeRead return",
                                          !.raw = raw]
               /\ UNCHANGED <<learnVars, SCOPE, acc>>
          ELSE
          \E done \in {StrainGaugeRead_processed(abz, adc)} :
              /\ strain' = done.strain
              /\ avg_record_times' = done.avg_record_times
              /\ strain_avg_temp' = done.strain_avg_temp
              /\ strain_avg' = done.strain_avg
              /\ strain_offset' = done.strain_offset
              /\ rotate_period_count_cal' = done.rotate_period_count_cal
              /\ x_fft' = done.x_fft
              /\ x_fft_neww' = done.x_fft_neww
              /\ strain_avg_ffted' = done.strain_avg_ffted
              /\ compensation' = done.compensation
              /\ abz_prev' = abz
              /\ SCOPE' = scope(fedCurrent, refCurrent, rot, done.strain_avg,
                                done.strain_offset, done.compensation,
                                done.strain_avg_ffted)
              /\ acc' = done.acc
              /\ last' = [op |-> "StrainGaugeRead",
                          snapshot |-> done.snapshot,
                          wrap |-> done.wrap, recompute |-> done.recompute,
                          prev |-> abz_prev,
                          count |-> rotate_period_count_cal,
                          raw |-> raw, ad_ok |-> TRUE]
  /\ UNCHANGED <<inverter_on, Proposed_Method_On, cfgVars, ctlVars, ctl_left,
                 writes_left, ever_on, probe, impVars, stepVars>>

(***************************************************************************)
(* StrainGaugeRead with its statements taken one at a time, so that        *)
(* gateControl can run between two of them.  gateControl reads             *)
(* rotateValue and the entry compensation[rotateValue.abz]; a step of the  *)
(* handler ends with a store to one of them:                               *)
(*   StrainGaugeRead_position   one of the stores of lines 393 and 394;    *)
(*   StrainGaugeRead_angle      the other one;                             *)
(*   StrainGaugeRead_body       lines 396-498, and the passes of the       *)
(*                              compensation loop for the bins below       *)
(*                              rotateValue.abz;                           *)
(*   StrainGaugeRead_loop       one of the three if statements of the loop *)
(*                              body for the bin rotateValue.abz;          *)
(*   StrainGaugeRead_end        the passes for the bins above, and lines   *)
(*                              516-520.                                   *)
(* The two stores of lines 393 and 394 go to objects that are not          *)
(* volatile, so a build may issue them in either order.  The telemetry of  *)
(* a gateControl that runs in between is taken of the tables as the steps  *)
(* leave them.                                                             *)
(***************************************************************************)
\* the statement of the loop body that pc stands before
LoopStatements == {"loop 1", "loop 2", "loop 3"}

StrainGaugeRead_position(raw, first) ==
  /\ learn_left > 0
  /\ learn_left' = learn_left - 1
  /\ pc.at = "idle"
  /\ LET abz == update_position(raw)
     IN  /\ rotateValue' =
              IF first = "abz"
                THEN [rotateValue EXCEPT !.abz = abz]
                ELSE [rotateValue EXCEPT !.theta = update_theta(abz)]
         /\ pc' = [at |-> "position", abz |-> abz, stored |-> first]
  /\ last' = [NoEvent EXCEPT !.op = "StrainGaugeRead_position", !.raw = raw]
  /\ UNCHANGED <<inverter_on, Proposed_Method_On, cfgVars, learnVars, ctlVars,
                 SCOPE, ctl_left, writes_left, ever_on, acc, probe, impVars,
                 loop_before>>

StrainGaugeRead_angle ==
  /\ pc.at = "position"
  /\ rotateValue' = [rotateValue EXCEPT !.abz = pc.abz,
                                        !.theta = update_theta(pc.abz)]
  /\ pc' = At("angle")
  /\ last' = [NoEvent EXCEPT !.op = "StrainGaugeRead_angle"]
  /\ UNCHANGED <<inverter_on, Proposed_Method_On, cfgVars, learnVars, ctlVars,
                 SCOPE, learn_left, ctl_left, writes_left, ever_on, acc,
                 probe, impVars, loop_before>>

StrainGaugeRead_body(adc) ==
  /\ pc.at = "angle"
  /\ LET abz == rotateValue.abz
     IN
     IF ReturnsEarly(abz_prev, abz)
       THEN /\ pc' = At("idle")
            /\ last' = [NoEvent EXCEPT !.op = "StrainGaugeRead return"]
            /\ UNCHANGED <<learnVars, SCOPE, acc, loop_before>>
       ELSE
       \E done \in {StrainGaugeRead_processed(abz, adc)} :
           /\ strain' = done.strain
           /\ avg_record_times' = done.avg_record_times
           /\ strain_avg_temp' = done.strain_avg_temp
           /\ strain_avg' = done.strain_avg
           /\ strain_offset' = done.strain_offset
           /\ x_fft' = done.x_fft
           /\ x_fft_neww' = done.x_fft_neww
           /\ strain_avg_ffted' = done.strain_avg_ffted
           /\ acc' = done.acc
           /\ last' = [op |-> "StrainGaugeRead_body",
                       snapshot |-> done.snapshot,
                       wrap |-> done.wrap, recompute |-> done.recompute,
                       prev |-> abz_prev, count |-> rotate_period_count_cal,
                       raw |-> 0, ad_ok |-> TRUE]
           /\ IF done.recompute
                THEN /\ compensation' =
                          [n \in Bins |-> IF n < abz
                                            THEN done.compensation[n]
                                            ELSE compensation[n]]
                     /\ loop_before' = compensation
                     /\ rotate_period_count_cal' = done.count1
                     /\ pc' = At("loop 1")
                     /\ UNCHANGED <<abz_prev, SCOPE>>
                ELSE /\ rotate_period_count_cal' = done.count1
                     /\ abz_prev' = abz
                     /\ SCOPE' = scope(fedCurrent, refCurrent, rotateValue,
                                       done.strain_avg, done.strain_offset,
                                       compensation, done.strain_avg_ffted)
                     /\ pc' = At("idle")
                     /\ UNCHANGED <<compensation, loop_before>>
  /\ UNCHANGED <<inverter_on, Proposed_Method_On, cfgVars, rotateValue,
                 ctlVars, learn_left, ctl_left, writes_left, ever_on, probe,
                 impVars>>

\* compensation[n] after one if statement of the loop body, c being
\* compensation[n] before it
loop_statement(statement, c, n, ffted, on, step, cutoff) ==
  IF statement = "loop 1"
    THEN (IF RLess(UpperBand(n), ffted[n]) THEN StepDown(c, step, on) ELSE c)
  ELSE IF statement = "loop 2"
    THEN (IF RLess(ffted[n], LowerBand(n)) THEN StepUp(c, step, on) ELSE c)
  ELSE (IF BelowCutoff(n, cutoff) THEN SENTINEL ELSE c)

StrainGaugeRead_loop ==
  /\ pc.at \in LoopStatements
  /\ LET n == rotateValue.abz
     IN  compensation' =
           [compensation EXCEPT
              ![n] = loop_statement(pc.at, @, n, strain_avg_ffted,
                                    Proposed_Method_On, current_step,
                                    value_cutoff)]
  /\ pc' = IF pc.at = "loop 1" THEN At("loop 2")
           ELSE IF pc.at = "loop 2" THEN At("loop 3")
           ELSE At("end")
  /\ last' = [NoEvent EXCEPT !.op = "StrainGaugeRead_loop"]
  /\ UNCHANGED <<abz_prev, strain, avg_record_times, strain_avg_temp,
                 strain_avg, strain_offset, rotate_period_count_cal, x_fft,
                 x_fft_neww, strain_avg_ffted>>
  /\ UNCHANGED <<inverter_on, Proposed_Method_On, cfgVars, rotateValue,
                 ctlVars, SCOPE, learn_left, ctl_left, writes_left, ever_on,
                 acc, probe, impVars, loop_before>>

StrainGaugeRead_end ==
  /\ pc.at = "end"
  /\ LET abz == rotateValue.abz
         rest == generate_compensation(compensation, strain_avg_ffted,
                   Proposed_Method_On, current_step, value_cutoff)
         comp == [n \in Bins |-> IF n > abz THEN rest[n] ELSE compensation[n]]
     IN  /\ compensation' = comp
         /\ rotate_period_count_cal' = 0
         /\ abz_prev' = abz
         /\ SCOPE' = scope(fedCurrent, refCurrent, rotateValue, strain_avg,
                           strain_offset, comp, strain_avg_ffted)
  /\ pc' = At("idle")
  /\ last' = [NoEvent EXCEPT !.op = "StrainGaugeRead_end", !.recompute = TRUE]
  /\ UNCHANGED <<strain, avg_record_times, strain_avg_temp, strain_avg,
                 strain_offset, x_fft, x_fft_neww, strain_avg_ffted>>
  /\ UNCHANGED <<inverter_on, Proposed_Method_On, cfgVars, rotateValue,
                 ctlVars, learn_left, ctl_left, writes_left, ever_on, acc,
                 probe, impVars, loop_before>>

(***************************************************************************)
(* The operator's writes to the two enable flags.                          *)
(***************************************************************************)
SetInverterOn(v) ==
  /\ writes_left > 0
  /\ writes_left' = writes_left - 1
  /\ inverter_on # v
  /\ inverter_on' = v
  /\ ever_on' = (ever_on \/ v = 1)
  /\ last' = [NoEvent EXCEPT !.op = "SetInverterOn"]
  /\ UNCHANGED <<Proposed_Method_On, cfgVars, rotateValue, learnVars, ctlVars,
                 SCOPE, learn_left, ctl_left, acc, probe, impVars, stepVars>>

SetProposedMethodOn(v) ==
  /\ writes_left > 0
  /\ writes_left' = writes_left - 1
  /\ Proposed_Method_On # v
  /\ Proposed_Method_On' = v
  /\ last' = [NoEvent EXCEPT !.op = "SetProposedMethodOn"]
  /\ UNCHANGED <<inverter_on, cfgVars, rotateValue, learnVars, ctlVars, SCOPE,
                 learn_left, ctl_left, ever_on, acc, probe, impVars, stepVars>>

(***************************************************************************)
(* Spec: both interrupts and the operator.                                 *)
(***************************************************************************)
Init ==
  /\ InitWith({0}, {c \in LearnConfigs : c.cutoff = 0}, SquareConfigs,
              FullLearnTicks, MaxCtlTicks, FullWrites)
  /\ probe = NoProbe
  /\ ImpIdle

Next ==
  \/ \E ad \in AdReadings : gateControl(ad)
  \/ \E raw \in FullRawCounts, adc \in AdcReadings : StrainGaugeRead(raw, adc)
  \/ \E v \in {0, 1, 2} : SetInverterOn(v)
  \/ \E v \in {0, 1} : SetProposedMethodOn(v)

Spec == Init /\ [][Next]_vars

(***************************************************************************)
(* SpecLearn: the learning interrupt and the operator's enable flag of the *)
(* proposed method.  gateControl writes none of the variables that         *)
(* StrainGaugeRead reads, so the learning engine behaves under Spec as it  *)
(* does here; leaving out the control ticks and the failing conversions    *)
(* makes room for every horizon and setting and for longer runs.           *)
(***************************************************************************)
InitLearn ==
  /\ InitWith(0 .. MaxH, LearnConfigs, {[on |-> 0, off |-> 0, peak |-> 0]},
              MaxLearnTicks, 0, MaxWrites)
  /\ probe = NoProbe
  /\ ImpIdle

NextLearn ==
  \/ \E raw \in RawCounts, adc \in {r \in AdcReadings : r.ok} :
       StrainGaugeRead(raw, adc)
  \/ \E v \in {0, 1} : SetProposedMethodOn(v)

SpecLearn == InitLearn /\ [][NextLearn]_vars

(***************************************************************************)
(* SpecHysterisis: generate_phase_gateSignalSequence on its own.  The      *)
(* feedback is drawn around both band edges of each reference.             *)
(***************************************************************************)
HystReferences == {-20, 0, 100}
HystLimits == {-5, 0, 10, 25}
HystOffsets == {-26, -25, -16, -11, -10, -9, -1, 0, 1, 9, 10, 11, 15, 25, 26}

\* the state MW_main leaves, with no tick to run
InitIdle ==
  InitWith({0}, {c \in LearnConfigs : c.cutoff = 0},
           {[on |-> 0, off |-> 0, peak |-> 0]}, 0, 0, 0)

InitHysterisis ==
  /\ InitIdle
  /\ ImpIdle
  /\ \E r \in HystReferences, b \in HystLimits, d \in HystOffsets :
       probe = [fn |-> "generate_phase_gateSignalSequence", done |-> FALSE,
                refCurrent |-> r, fedCurrent |-> r + d, hysterisis_limit |-> b,
                ret |-> 0]

call_generate_phase_gateSignalSequence ==
  /\ probe.fn = "generate_phase_gateSignalSequence"
  /\ ~probe.done
  /\ probe' = [probe EXCEPT
                 !.done = TRUE,
                 !.ret = generate_phase_gateSignalSequence(
                           probe.refCurrent, probe.fedCurrent,
                           probe.hysterisis_limit)]
  /\ UNCHANGED <<inverter_on, Proposed_Method_On, cfgVars, rotateValue,
                 learnVars, ctlVars, SCOPE, learn_left, ctl_left, writes_left,
                 ever_on, last, acc, impVars, stepVars>>

NextHysterisis == call_generate_phase_gateSignalSequence

SpecHysterisis == InitHysterisis /\ [][NextHysterisis]_vars

(***************************************************************************)
(* C2.  For every reference r, feedback f and band b >= 0 the code that    *)
(* generate_phase_gateSignalSequence returns is HOLD exactly when          *)
(* r - b <= f <= r + b (both edges included), LOW exactly when f < r - b   *)
(* and HIGH exactly when f > r + b.                                        *)
(***************************************************************************)
C2_HysterisisCodes ==
  (probe.fn = "generate_phase_gateSignalSequence" /\ probe.done
     /\ probe.hysterisis_limit >= 0)
    => LET r == probe.refCurrent
           f == probe.fedCurrent
           b == probe.hysterisis_limit
       IN  /\ probe.ret = HOLD <=> (r - b <= f /\ f <= r + b)
           /\ probe.ret = LOW <=> f < r - b
           /\ probe.ret = HIGH <=> f > r + b

\* a call with the feedback on the upper edge of a band of positive width
C2_Witness ==
  /\ probe.fn = "generate_phase_gateSignalSequence"
  /\ probe.done
  /\ probe.hysterisis_limit > 0
  /\ probe.fedCurrent = probe.refCurrent + probe.hysterisis_limit
  /\ probe.ret = HOLD

(***************************************************************************)
(* SpecSquare: generate_square_reference on its own.  The compensation     *)
(* table holds the drawn value at bin 512 and 1 everywhere else.           *)
(***************************************************************************)
SquareWindows == {[on |-> 0, off |-> 0], [on |-> 235, off |-> 100],
                  [on |-> 100, off |-> 235]}
SquarePeaks == {0, 50, 200}
SquareLimits == {-10, 0, 130}
SquareCompensations == {SENTINEL, -2, 0, 2, 200}
SquareBins == {0, 512, 1000}

InitSquare ==
  /\ InitIdle
  /\ ImpIdle
  /\ \E q \in SquareWindows, peak \in SquarePeaks, max \in SquareLimits,
        c \in SquareCompensations, abz \in SquareBins :
       probe = [fn |-> "generate_square_reference", done |-> FALSE,
                theta_on |-> square_phase_deg2rad(q.on),
                theta_off |-> square_phase_deg2rad(q.off),
                peak |-> peak, MAX_PHASE_CURRENT |-> max,
                rotateValue |-> [abz |-> abz, theta |-> update_theta(abz)],
                compensation |-> [n \in Bins |-> IF n = 512 THEN c ELSE 1],
                ret |-> [u |-> 0, v |-> 0, w |-> 0]]

call_generate_square_reference ==
  /\ probe.fn = "generate_square_reference"
  /\ ~probe.done
  /\ probe' = [probe EXCEPT
                 !.done = TRUE,
                 !.ret = generate_square_reference(
                           probe.theta_on, probe.theta_off, probe.peak,
                           probe.MAX_PHASE_CURRENT, probe.rotateValue,
                           probe.compensation)]
  /\ UNCHANGED <<inverter_on, Proposed_Method_On, cfgVars, rotateValue,
                 learnVars, ctlVars, SCOPE, learn_left, ctl_left, writes_left,
                 ever_on, last, acc, impVars, stepVars>>

NextSquare == call_generate_square_reference

SpecSquare == InitSquare /\ [][NextSquare]_vars

(***************************************************************************)
(* SpecIMP: the IMP current controller on its own.  Nothing in srmcode.c   *)
(* calls it (the calls in MW_main are commented out), so its caller is     *)
(* modelled by the functions' contracts: the model is initialised with     *)
(* KLAB_curCtrl_update_ssFunc, the two state globals start from their      *)
(* static zeros, and then either function is called.                       *)
(***************************************************************************)
\* (rotOmega, fs): 6 * rotOmega against omega0 = 2 * fs gives a turn of the
\* resonant pair by atan(3/4)-like angles, by a quarter turn, and by nothing
ImpConfigs == {[rotOmega |-> 1, fs |-> 1], [rotOmega |-> 3, fs |-> 9],
               [rotOmega |-> 0, fs |-> 9]}
\* reference and feedback currents on d, q, zero
ImpReferences == {[d |-> R(0), q |-> R(0), zero |-> R(0)],
                  [d |-> R(1), q |-> R(0), zero |-> R(2)]}
ImpFeedbacks == {[d |-> R(0), q |-> R(0), zero |-> R(0)],
                 [d |-> R(1), q |-> R(1), zero |-> R(0)]}

InitIMP ==
  /\ InitIdle
  /\ InitImpWith({KLAB_curCtrl_update_ssFunc(ZeroStateSpace, c.rotOmega, c.fs)
                    : c \in ImpConfigs}, MaxImpCalls)
  /\ probe = NoProbe

call_KLAB_curCtrl_update_ssFunc(rotOmega, fs) ==
  /\ imp_left > 0
  /\ imp_left' = imp_left - 1
  /\ ssFunction' = KLAB_curCtrl_update_ssFunc(ssFunction, rotOmega, fs)
  /\ imp_last' = [NoImpCall EXCEPT !.op = "KLAB_curCtrl_update_ssFunc"]
  /\ UNCHANGED <<ssFunc_states_X, ssFunc_output_Y, outVoltage>>
  /\ UNCHANGED <<inverter_on, Proposed_Method_On, cfgVars, rotateValue,
                 learnVars, ctlVars, SCOPE, learn_left, ctl_left, writes_left,
                 ever_on, last, acc, probe, stepVars>>

call_KLAB_curCtrl_output_outVol(refC, fedC) ==
  /\ imp_left > 0
  /\ imp_left' = imp_left - 1
  /\ LET r == KLAB_curCtrl_output_outVol(ssFunction, ssFunc_states_X,
                                         refC, fedC)
     IN  /\ ssFunc_states_X' = r.X
         /\ ssFunc_output_Y' = r.Y
         /\ outVoltage' = r.outV
  /\ imp_last' = [op |-> "KLAB_curCtrl_output_outVol", refC |-> refC,
                  fedC |-> fedC]
  /\ UNCHANGED ssFunction
  /\ UNCHANGED <<inverter_on, Proposed_Method_On, cfgVars, rotateValue,
                 learnVars, ctlVars, SCOPE, learn_left, ctl_left, writes_left,
                 ever_on, last, acc, probe, stepVars>>

NextIMP ==
  \/ \E c \in ImpConfigs : call_KLAB_curCtrl_update_ssFunc(c.rotOmega, c.fs)
  \/ \E refC \in ImpReferences, fedC \in ImpFeedbacks :
       call_KLAB_curCtrl_output_outVol(refC, fedC)

SpecIMP == InitIMP /\ [][NextIMP]_vars

(***************************************************************************)
(* SpecPhaseSquare: generate_phase_square_reference on its own.  Angles    *)
(* are drawn in whole degrees, below zero as well: generate_square_        *)
(* reference passes rotateValue.theta - PI_2OVER3.                         *)
(***************************************************************************)
PhaseWindows == {[on |-> 300, off |-> 60], [on |-> 60, off |-> 300],
                 [on |-> 235, off |-> 100], [on |-> 100, off |-> 100],
                 [on |-> 0, off |-> 0]}
PhasePeaks == {-30, 0, 50}
PhaseThetas == {-120, -60, -1, 0, 30, 60, 100, 180, 235, 300, 350, 359}

InitPhaseSquare ==
  /\ InitIdle
  /\ ImpIdle
  /\ \E q \in PhaseWindows, peak \in PhasePeaks, deg \in PhaseThetas :
       probe = [fn |-> "generate_phase_square_reference", done |-> FALSE,
                theta_on |-> square_phase_deg2rad(q.on),
                theta_off |-> square_phase_deg2rad(q.off),
                peak |-> peak, theta |-> deg * DEG2RADCOEFF, ret |-> 0]

call_generate_phase_square_reference ==
  /\ probe.fn = "generate_phase_square_reference"
  /\ ~probe.done
  /\ probe' = [probe EXCEPT
                 !.done = TRUE,
                 !.ret = generate_phase_square_reference(
                           probe.theta_on, probe.theta_off, probe.peak,
                           probe.theta)]
  /\ UNCHANGED <<inverter_on, Proposed_Method_On, cfgVars, rotateValue,
                 learnVars, ctlVars, SCOPE, learn_left, ctl_left, writes_left,
                 ever_on, last, acc, impVars, stepVars>>

NextPhaseSquare == call_generate_phase_square_reference

SpecPhaseSquare == InitPhaseSquare /\ [][NextPhaseSquare]_vars

(***************************************************************************)
(* SpecGateWord: generate_gateSignalSequence_Hysterisis on its own.  Each  *)
(* phase's feedback is drawn below, inside and above the band of its       *)
(* reference, so that every triple of per-phase codes occurs.              *)
(***************************************************************************)
GateReferences == {[u |-> 0, v |-> 0, w |-> 0], [u |-> 50, v |-> 0, w |-> 130]}
GateOffsets == {-20, 0, 20}
GateLimits == {-5, 0, 10}

InitGateWord ==
  /\ InitIdle
  /\ ImpIdle
  /\ \E r \in GateReferences, b \in GateLimits,
        du \in GateOffsets, dv \in GateOffsets, dw \in GateOffsets :
       probe = [fn |-> "generate_gateSignalSequence_Hysterisis",
                done |-> FALSE, refCurrent |-> r,
                fedCurrent |-> [u |-> r.u + du, v |-> r.v + dv,
                                w |-> r.w + dw],
                hysterisis_limit |-> b, ret |-> 0]

call_generate_gateSignalSequence_Hysterisis ==
  /\ probe.fn = "generate_gateSignalSequence_Hysterisis"
  /\ ~probe.done
  /\ probe' = [probe EXCEPT
                 !.done = TRUE,
                 !.ret = generate_gateSignalSequence_Hysterisis(
                           probe.refCurrent, probe.fedCurrent,
                           probe.hysterisis_limit)]
  /\ UNCHANGED <<inverter_on, Proposed_Method_On, cfgVars, rotateValue,
                 learnVars, ctlVars, SCOPE, learn_left, ctl_left, writes_left,
                 ever_on, last, acc, impVars, stepVars>>

NextGateWord == call_generate_gateSignalSequence_Hysterisis

SpecGateWord == InitGateWord /\ [][NextGateWord]_vars

(***************************************************************************)
(* SpecSpeed: KLAB_speedCalc_update_speed on its own, called on a          *)
(* ROTATE_VALUE of zeros with counts of the free-run counter, which runs   *)
(* from 0 to 1e9 - 1.  probe keeps the ROTATE_VALUE, the argument of the   *)
(* last call, the timer field that call found and the timerDiff it used.   *)
(***************************************************************************)
TimerCounts == {0, 1, 2, 1000, 250000000, 499999999, 500000000, 500000001,
                750000000, 999999000, 999999998, 999999999}

InitSpeed ==
  /\ InitIdle
  /\ ImpIdle
  /\ probe = [fn |-> "KLAB_speedCalc_update_speed", done |-> FALSE,
              calls_left |-> MaxSpeedCalls,
              rotValue |-> [timer |-> 0, rpm |-> RZero, omega |-> RZero],
              timerCount |-> 0, timer_before |-> 0, timerDiff |-> 0]

call_KLAB_speedCalc_update_speed(timerCount) ==
  /\ probe.fn = "KLAB_speedCalc_update_speed"
  /\ probe.calls_left > 0
  /\ probe' = [probe EXCEPT
                 !.done = TRUE,
                 !.calls_left = @ - 1,
                 !.rotValue = KLAB_speedCalc_update_speed(probe.rotValue,
                                                          timerCount),
                 !.timerCount = timerCount,
                 !.timer_before = probe.rotValue.timer,
                 !.timerDiff = speed_timerDiff(probe.rotValue.timer,
                                               timerCount)]
  /\ UNCHANGED <<inverter_on, Proposed_Method_On, cfgVars, rotateValue,
                 learnVars, ctlVars, SCOPE, learn_left, ctl_left, writes_left,
                 ever_on, last, acc, impVars, stepVars>>

NextSpeed == \E t \in TimerCounts : call_KLAB_speedCalc_update_speed(t)

SpecSpeed == InitSpeed /\ [][NextSpeed]_vars

(***************************************************************************)
(* SpecPosition: the position update of StrainGaugeRead on its own, for    *)
(* raw counts and alignment offsets over the whole range 0 .. 1023.        *)
(***************************************************************************)
PositionRawCounts == {0, 1, 4, 5, 6, 100, 511, 512, 1022, 1023}
PositionOffsets == {0, 1, 5, 512, 1022, 1023}

\* the indexes at which the program reads or writes a table of length
\* ENCODER_MAX_COUNT + 1: rotateValue.abz, and the counters of its loops
TableIndexes(rot) ==
  {rot.abz}
    \cup {i \in 0 .. ENCODER_MAX_COUNT + 1 : i < ENCODER_MAX_COUNT + 1}
    \cup {n \in OFFSET_FIRST .. OFFSET_END : n < OFFSET_END}
    \cup {(i * TABLE_LEN) \div N_FFT : i \in FftBins}
    \cup {i \in 0 .. TABLE_LEN : i < TABLE_LEN}

InitPosition ==
  /\ InitIdle
  /\ ImpIdle
  /\ \E raw \in PositionRawCounts, aligned \in PositionOffsets :
       probe = [fn |-> "update_position", done |-> FALSE, raw |-> raw,
                A_aligned_encoder_count |-> aligned,
                rotateValue |-> [abz |-> 0, theta |-> 0, sin |-> RZero,
                                 cos |-> RZero],
                indexes |-> {}]

call_update_position ==
  /\ probe.fn = "update_position"
  /\ ~probe.done
  /\ LET abz == update_position_aligned(probe.raw,
                                        probe.A_aligned_encoder_count)
         rot == [probe.rotateValue EXCEPT !.abz = abz,
                                          !.theta = update_theta(abz)]
     IN  probe' = [probe EXCEPT !.done = TRUE, !.rotateValue = rot,
                                !.indexes = TableIndexes(rot)]
  /\ UNCHANGED <<inverter_on, Proposed_Method_On, cfgVars, rotateValue,
                 learnVars, ctlVars, SCOPE, learn_left, ctl_left, writes_left,
                 ever_on, last, acc, impVars, stepVars>>

NextPosition == call_update_position

SpecPosition == InitPosition /\ [][NextPosition]_vars

(***************************************************************************)
(* SpecDft: dft and then idft on its result, on their own, as              *)
(* StrainGaugeRead calls them but without the phase correction in between: *)
(* a real sequence x (y = 0) of a length that divides N_FFT.  probe holds  *)
(* the six arrays behind the pointer arguments of the two calls.           *)
(***************************************************************************)
DftValues == {-1, 0, 2}
Impulse(n, j) == [i \in 0 .. n - 1 |-> IF i = j THEN FRat(1, 1) ELSE FRat(0, 1)]
ZeroArray(n) == [i \in 0 .. n - 1 |-> FRat(0, 1)]

DftInputs ==
  {[n |-> 2, x |-> [i \in 0 .. 1 |-> FRat(f[i], 1)]] :
     f \in [0 .. 1 -> DftValues]}
    \cup {[n |-> 4, x |-> [i \in 0 .. 3 |-> FRat(f[i], 1)]] :
            f \in [0 .. 3 -> DftValues]}
    \cup {[n |-> 8, x |-> Impulse(8, j)] : j \in 0 .. 7}
    \cup {[n |-> 8, x |-> [i \in 0 .. 7 |-> FRat(i * i - 3, 1)]]}
    \cup {[n |-> N_FFT, x |-> Impulse(N_FFT, j)] : j \in {1, 5}}
    \cup {[n |-> N_FFT, x |-> [i \in 0 .. N_FFT - 1 |-> FRat(i - 3, 1)]]}

InitDft ==
  /\ InitIdle
  /\ ImpIdle
  /\ \E input \in DftInputs :
       probe = [fn |-> "dft", done |-> FALSE, calls |-> 0, n |-> input.n,
                x_fft |-> input.x, y_fft |-> ZeroArray(input.n),
                a_fft |-> ZeroArray(input.n), b_fft |-> ZeroArray(input.n),
                x_fft_new |-> ZeroArray(input.n),
                y_fft_new |-> ZeroArray(input.n)]

\* dft(x_fft, y_fft, a_fft, b_fft, n)
call_dft ==
  /\ probe.fn = "dft"
  /\ probe.calls = 0
  /\ LET out == dft(probe.x_fft, probe.y_fft, probe.n)
     IN  probe' = [probe EXCEPT !.calls = 1, !.a_fft = out.a, !.b_fft = out.b]
  /\ UNCHANGED <<inverter_on, Proposed_Method_On, cfgVars, rotateValue,
                 learnVars, ctlVars, SCOPE, learn_left, ctl_left, writes_left,
                 ever_on, last, acc, impVars, stepVars>>

\* idft(a_fft, b_fft, x_fft_new, y_fft_new, n)
call_idft ==
  /\ probe.fn = "dft"
  /\ probe.calls = 1
  /\ LET out == idft(probe.a_fft, probe.b_fft, probe.n)
     IN  probe' = [probe EXCEPT !.calls = 2, !.done = TRUE,
                                !.x_fft_new = out.a, !.y_fft_new = out.b]
  /\ UNCHANGED <<inverter_on, Proposed_Method_On, cfgVars, rotateValue,
                 learnVars, ctlVars, SCOPE, learn_left, ctl_left, writes_left,
                 ever_on, last, acc, impVars, stepVars>>

NextDft == call_dft \/ call_idft

SpecDft == InitDft /\ [][NextDft]_vars

(***************************************************************************)
(* SpecFrame: KLAB_uvw2dq0 and then KLAB_dq02uvw on one ELECTRIC_VALUE,    *)
(* with one ROTATE_VALUE whose sin and cos fields hold the sine and cosine *)
(* of an angle: the quarter turns, and angles whose sine and cosine are    *)
(* rational.                                                               *)
(***************************************************************************)
FrameValues == {-1, 0, 1}
\* <<cos, sin>> of the angles
FrameAngles == {<<SRat(1, 1), SRat(0, 1)>>, <<SRat(0, 1), SRat(1, 1)>>,
                <<SRat(-1, 1), SRat(0, 1)>>, <<SRat(3, 5), SRat(4, 5)>>,
                <<SRat(-4, 5), SRat(3, 5)>>, <<SRat(5, 13), SRat(-12, 13)>>}

InitFrame ==
  /\ InitIdle
  /\ ImpIdle
  /\ \E u \in FrameValues, v \in FrameValues, w \in FrameValues,
        angle \in FrameAngles :
       LET value == [u |-> SRat(u, 1), v |-> SRat(v, 1), w |-> SRat(w, 1),
                     d |-> SRat(0, 1), q |-> SRat(0, 1), zero |-> SRat(0, 1)]
       IN  probe = [fn |-> "KLAB_uvw2dq0", done |-> FALSE, calls |-> 0,
                    elecValue |-> value, given |-> value,
                    rotValue |-> [cos |-> angle[1], sin |-> angle[2]]]

call_KLAB_uvw2dq0 ==
  /\ probe.fn = "KLAB_uvw2dq0"
  /\ probe.calls = 0
  /\ probe' = [probe EXCEPT
                 !.calls = 1,
                 !.elecValue = KLAB_uvw2dq0(probe.elecValue, probe.rotValue)]
  /\ UNCHANGED <<inverter_on, Proposed_Method_On, cfgVars, rotateValue,
                 learnVars, ctlVars, SCOPE, learn_left, ctl_left, writes_left,
                 ever_on, last, acc, impVars, stepVars>>

call_KLAB_dq02uvw ==
  /\ probe.fn = "KLAB_uvw2dq0"
  /\ probe.calls = 1
  /\ probe' = [probe EXCEPT
                 !.calls = 2, !.done = TRUE,
                 !.elecValue = KLAB_dq02uvw(probe.elecValue, probe.rotValue)]
  /\ UNCHANGED <<inverter_on, Proposed_Method_On, cfgVars, rotateValue,
                 learnVars, ctlVars, SCOPE, learn_left, ctl_left, writes_left,
                 ever_on, last, acc, impVars, stepVars>>

NextFrame == call_KLAB_uvw2dq0 \/ call_KLAB_dq02uvw

SpecFrame == InitFrame /\ [][NextFrame]_vars

(***************************************************************************)
(* SpecPreempt: StrainGaugeRead statement by statement, and gateControl,   *)
(* which may run between any two of its steps.  The horizon is 0, so that  *)
(* every wrap recomputes; value_cutoff is 0 or 0.1, above the reference of *)
(* bins 0 and 512.                                                         *)
(***************************************************************************)
PreemptConfigs == {[cutoff |-> 0, step |-> 2, rpm |-> 0],
                   [cutoff |-> 100, step |-> 2, rpm |-> 0]}

InitPreempt ==
  /\ InitWith({0}, PreemptConfigs, {[on |-> 235, off |-> 100, peak |-> 50]},
              PreemptLearnTicks, PreemptCtlTicks, 0)
  /\ probe = NoProbe
  /\ ImpIdle

NextPreempt ==
  \/ \E ad \in AdReadings : gateControl(ad)
  \/ \E raw \in RawCounts, first \in {"abz", "theta"} :
       StrainGaugeRead_position(raw, first)
  \/ StrainGaugeRead_angle
  \/ \E adc \in AdcReadings : StrainGaugeRead_body(adc)
  \/ StrainGaugeRead_loop
  \/ StrainGaugeRead_end

SpecPreempt == InitPreempt /\ [][NextPreempt]_vars

(***************************************************************************)
(* SpecPhase: the phase-correction loop of StrainGaugeRead (lines 450-474) *)
(* pass by pass, on the polar form of a spectrum.  A phase is the sum of   *)
(* turn eighths of a turn (what carg delivers for the spectra drawn here)  *)
(* and of rad units of 0.001419 / 5 rad (what the loop adds): the unit is  *)
(* rational and pi is not, so such a phase is 0 modulo 2 pi only when rad  *)
(* is 0 and turn is a multiple of 8.  The spectra drawn are spectra of     *)
(* real signals: magnitude and phase of bin M - i mirror those of bin i.   *)
(***************************************************************************)
EIGHTHS == 8
PhaseSpeeds == {0, 1, 300}
\* carg(Z) and cabs(Z) of dft's output for three real signals: a constant, an
\* alternating signal (bin M/2 only), and a signal with bins 1, M - 1 and M/2
PhaseSpectra ==
  {[phase |-> [i \in FftBins |-> [turn |-> 0, rad |-> 0]],
    magnitude |-> [i \in FftBins |-> IF i = 0 THEN 3 ELSE 0]],
   [phase |-> [i \in FftBins |-> [turn |-> IF i = N_FFT \div 2 THEN 4 ELSE 0,
                                  rad |-> 0]],
    magnitude |-> [i \in FftBins |-> IF i = N_FFT \div 2 THEN 2 ELSE 0]],
   [phase |-> [i \in FftBins |->
                 [turn |-> IF i = 1 THEN 1 ELSE IF i = N_FFT - 1 THEN 7 ELSE 0,
                  rad |-> 0]],
    magnitude |-> [i \in FftBins |->
                     IF i \in {1, N_FFT - 1} THEN 5
                     ELSE IF i = N_FFT \div 2 THEN 1 ELSE 0]]}

\* what lines 462-469 add to phase[i_fft], in units of 0.001419 / 5 rad
PhaseShift(i_fft, rpm) ==
  IF i_fft > N_FFT \div 2 THEN -((N_FFT - i_fft) * rpm) ELSE i_fft * rpm

\* phase, magnitude, a_fft_neww and b_fft_neww before the loop
ZeroPolar == [i \in FftBins |-> [turn |-> 0, rad |-> 0]]

InitPhase ==
  /\ InitIdle
  /\ ImpIdle
  /\ \E z \in PhaseSpectra, rpm \in PhaseSpeeds :
       probe = [fn |-> "phase", i_fft |-> 0, rpm |-> rpm, Z |-> z,
                phase |-> ZeroPolar,
                magnitude |-> [i \in FftBins |-> 0],
                fft_neww |-> [phase |-> ZeroPolar,
                              magnitude |-> [i \in FftBins |-> 0]]]

\* one pass of the loop: Z is the polar form carg(Z), cabs(Z) of dft's
\* output, and fft_neww the polar form of the pair a_fft_neww + I b_fft_neww
\* = magnitude * (cos(phase) + I sin(phase))
phase_pass ==
  /\ probe.fn = "phase"
  /\ probe.i_fft < N_FFT
  /\ LET i == probe.i_fft
         turned == [probe.Z.phase[i] EXCEPT
                      !.rad = @ + PhaseShift(i, probe.rpm)]
         cabs == probe.Z.magnitude[i]
     IN  probe' = [probe EXCEPT !.phase[i] = turned,
                                !.magnitude[i] = cabs,
                                !.fft_neww.phase[i] = turned,
                                !.fft_neww.magnitude[i] = cabs,
                                !.i_fft = i + 1]
  /\ UNCHANGED <<inverter_on, Proposed_Method_On, cfgVars, rotateValue,
                 learnVars, ctlVars, SCOPE, learn_left, ctl_left, writes_left,
                 ever_on, last, acc, impVars, stepVars>>

NextPhase == phase_pass

SpecPhase == InitPhase /\ [][NextPhase]_vars

(***************************************************************************)
(* C1.  After every control tick that ran with inverter_on other than 1    *)
(* the gate output holds 4095, whatever the reference and the feedback     *)
(* are; and for as long as inverter_on has never been 1, nothing but 4095  *)
(* has been handed to the gate output.                                     *)
(***************************************************************************)
C1_AllHighUnlessEnabled ==
  /\ (last.op = "gateControl" /\ inverter_on # 1)
       => (gate_out = <<ALL_HIGH>> /\ gateSignalSequence = ALL_HIGH)
  /\ ~ever_on => \A i \in DOMAIN gate_out : gate_out[i] = ALL_HIGH

\* a disabled control tick whose hysteresis code was not 4095
C1_Witness ==
  /\ last.op = "gateControl"
  /\ inverter_on # 1
  /\ generate_gateSignalSequence_Hysterisis(refCurrent, fedCurrent,
                                            hysterisis_limit) # ALL_HIGH
  /\ gate_out = <<ALL_HIGH>>

(***************************************************************************)
(* C3.  After a call of generate_square_reference with                     *)
(* max_phase_current >= 0, refCurrent.v is                                 *)
(*   min(max(rect(theta - 120 deg) + compensation[abz], 0), max)           *)
(* for the bin abz the rotor is in, and refCurrent.u, v and w all lie in   *)
(* 0 .. max_phase_current, whatever the compensation is.                   *)
(***************************************************************************)
C3_SquareReferenceClamped ==
  (probe.fn = "generate_square_reference" /\ probe.done
     /\ probe.MAX_PHASE_CURRENT >= 0)
    => LET max == probe.MAX_PHASE_CURRENT
           rect == generate_phase_square_reference(
                     probe.theta_on, probe.theta_off, probe.peak,
                     probe.rotateValue.theta - PI_2OVER3)
           sum == rect + probe.compensation[probe.rotateValue.abz]
           atLeast0 == IF sum > 0 THEN sum ELSE 0
           atMostMax == IF atLeast0 < max THEN atLeast0 ELSE max
       IN  /\ probe.ret.v = atMostMax
           /\ \A x \in {probe.ret.u, probe.ret.v, probe.ret.w} :
                0 <= x /\ x <= max

\* a call in which the rectangle is at its peak and the bin holds the
\* sentinel: the sum is clamped to 0
C3_Witness ==
  /\ probe.fn = "generate_square_reference"
  /\ probe.done
  /\ probe.MAX_PHASE_CURRENT > 0
  /\ probe.compensation[probe.rotateValue.abz] = SENTINEL
  /\ generate_phase_square_reference(
       probe.theta_on, probe.theta_off, probe.peak,
       probe.rotateValue.theta - PI_2OVER3) > 0
  /\ probe.ret.v = 0

(***************************************************************************)
(* C4.  A learning tick that raises the visit counter of its bin above     *)
(* avg_max_count copies the whole running-average table, the bins not      *)
(* visited since the last reset included, into strain_avg and then sets    *)
(* every visit counter and every running average to 0; any other tick      *)
(* leaves strain_avg as it was.                                            *)
(***************************************************************************)
C4_SnapshotAndReset ==
  [][last'.op \in {"StrainGaugeRead", "StrainGaugeRead return"}
       => LET k == rotateValue'.abz
          IN  IF last'.op = "StrainGaugeRead"
                 /\ avg_record_times[k] + 1 > avg_max_count
                THEN /\ strain_avg' =
                          [strain_avg_temp EXCEPT
                             ![k] = IncrementalMean(@, R(strain'),
                                                    avg_record_times[k] + 1)]
                     /\ avg_record_times' = ZeroCounts
                     /\ strain_avg_temp' = ZeroTable
                ELSE strain_avg' = strain_avg]_vars

\* a tick at one bin has copied the running average of another bin and
\* has reset every counter and every running average
C4_Witness ==
  /\ last.op = "StrainGaugeRead"
  /\ last.snapshot
  /\ avg_max_count > 0
  /\ \E j \in Bins \ {rotateValue.abz} : strain_avg[j] # RZero
  /\ avg_record_times = ZeroCounts
  /\ strain_avg_temp = ZeroTable

(***************************************************************************)
(* C5.  In every state, for every bin k, avg_record_times[k] is the number *)
(* of samples accumulated into bin k since the last reset and              *)
(* strain_avg_temp[k] is their arithmetic mean, 0 when there is none.      *)
(***************************************************************************)
RECURSIVE Overlay(_, _)
Overlay(table, g) ==
  IF DOMAIN g = {} THEN table
  ELSE LET k == CHOOSE j \in DOMAIN g : TRUE
       IN  Overlay([table EXCEPT ![k] = g[k]],
                   [j \in DOMAIN g \ {k} |-> g[j]])

C5_RunningAverageIsMean ==
  /\ avg_record_times = Overlay(ZeroCounts, [k \in DOMAIN acc |-> acc[k].n])
  /\ strain_avg_temp =
       Overlay(ZeroTable,
               [k \in DOMAIN acc |-> RNorm(acc[k].sum, acc[k].n)])

\* a bin holds the mean 1.0 of the two samples 0 and 2.0
C5_Witness ==
  \E k \in DOMAIN acc :
    /\ acc[k].n = 2
    /\ acc[k].sum = 2000
    /\ avg_record_times[k] = 2
    /\ strain_avg_temp[k] = <<1000, 1>>

(***************************************************************************)
(* C6.  A learning tick recomputes exactly when it detects a revolution    *)
(* boundary and the accumulation-cycle counter, incremented for that       *)
(* boundary, exceeds avg_max_count * factor_cal_time; the recompute leaves *)
(* the counter at 0, any other tick leaves it incremented by the boundary  *)
(* it detected, and at the end of a tick the counter never exceeds         *)
(* avg_max_count * factor_cal_time: a recompute is the                     *)
(* (avg_max_count * factor_cal_time + 1)-th boundary since the last one.   *)
(***************************************************************************)
C6_RecomputeCadence ==
  /\ rotate_period_count_cal <= avg_max_count * factor_cal_time
  /\ last.op = "StrainGaugeRead"
       => /\ last.recompute
               <=> (last.wrap
                      /\ last.count + 1 > avg_max_count * factor_cal_time)
          /\ last.recompute
               => (last.count = avg_max_count * factor_cal_time
                     /\ rotate_period_count_cal = 0)
          /\ ~last.recompute
               => rotate_period_count_cal
                    = last.count + (IF last.wrap THEN 1 ELSE 0)

\* a recompute at the second boundary, with avg_max_count = 1
C6_Witness ==
  /\ last.op = "StrainGaugeRead"
  /\ last.recompute
  /\ avg_max_count > 0
  /\ last.count = avg_max_count * factor_cal_time
  /\ rotate_period_count_cal = 0

(***************************************************************************)
(* C7, as amended.  A processed learning tick registers a wrap, and counts *)
(* it in rotate_period_count_cal, exactly when abz_prev exceeds the bin of *)
(* the tick by more than 500; abz_prev is the bin of the previous          *)
(* processed tick, and 1024 before the first one.                          *)
(***************************************************************************)
C7_WrapThreshold500 ==
  last.op = "StrainGaugeRead"
    => /\ last.wrap <=> last.prev - rotateValue.abz > WRAP_THRESHOLD
       /\ (last.wrap /\ ~last.recompute)
            => rotate_period_count_cal = last.count + 1
       /\ ~last.wrap => rotate_period_count_cal = last.count

\* a wrap registered on a decrease of 512 bins from a processed sample
C7_Witness ==
  /\ last.op = "StrainGaugeRead"
  /\ last.wrap
  /\ last.prev = 512
  /\ rotateValue.abz = 0

(***************************************************************************)
(* C7, as claimed.  A processed learning tick registers a wrap exactly     *)
(* when the bin decreased by more than half the table length, 512, since   *)
(* the previous processed tick.                                            *)
(***************************************************************************)
C7_Original ==
  (last.op = "StrainGaugeRead" /\ last.prev # ABZ_PREV_INIT)
    => (last.wrap <=> last.prev - rotateValue.abz > TABLE_LEN \div 2)

(***************************************************************************)
(* C8, as amended.  In a recompute that runs with Proposed_Method_On = 1,  *)
(* every bin whose interpolated value strain_avg_ffted is above            *)
(* strain_ref * AdjustTorque + hy_band, and whose reference is not below   *)
(* value_cutoff, has its compensation decreased by exactly current_step.   *)
(***************************************************************************)
C8_DecreaseOnInterpolated ==
  [][(last'.recompute /\ Proposed_Method_On = 1)
       => \A n \in Bins :
            (RLess(UpperBand(n), strain_avg_ffted'[n])
               /\ ~(strain_ref(n) < value_cutoff))
              => compensation'[n] = compensation[n] - current_step]_vars

\* a recompute has decreased the compensation of a bin whose stable
\* average is not above the band while its interpolated value is
C8_Witness ==
  /\ last.recompute
  /\ Proposed_Method_On = 1
  /\ current_step > 0
  /\ \E n \in Bins :
       /\ RLess(UpperBand(n), strain_avg_ffted[n])
       /\ ~RLess(UpperBand(n), strain_avg[n])
       /\ ~(strain_ref(n) < value_cutoff)
       /\ compensation[n] = -current_step

(***************************************************************************)
(* C8, as claimed.  In a recompute that runs with Proposed_Method_On = 1,  *)
(* every bin whose stable average strain_avg is above                      *)
(* strain_ref * AdjustTorque + hy_band has its compensation decreased by   *)
(* exactly current_step.                                                   *)
(***************************************************************************)
C8_Original ==
  [][(last'.recompute /\ Proposed_Method_On = 1)
       => \A n \in Bins :
            (RLess(UpperBand(n), strain_avg'[n])
               /\ ~(strain_ref(n) < value_cutoff))
              => compensation'[n] = compensation[n] - current_step]_vars

(***************************************************************************)
(* C9.  A recompute leaves the sentinel in every bin whose reference is    *)
(* below value_cutoff, whatever the bin held, whatever its interpolated    *)
(* value and whatever Proposed_Method_On is; in every other bin it leaves  *)
(* what the two band tests make of the old value: the old value, the       *)
(* decrease or the increase, each times Proposed_Method_On when stepped.   *)
(***************************************************************************)
C9_SentinelBelowCutoffOnly ==
  [][last'.recompute
       => \A n \in Bins :
            IF strain_ref(n) < value_cutoff
              THEN compensation'[n] = SENTINEL
              ELSE compensation'[n]
                     \in {compensation[n],
                          (compensation[n] - current_step)
                            * Proposed_Method_On,
                          (compensation[n] + current_step)
                            * Proposed_Method_On}]_vars

\* a recompute with the method switched off: a bin below the cutoff holds
\* the sentinel, a bin not below it does not
C9_Witness ==
  /\ last.recompute
  /\ Proposed_Method_On = 0
  /\ \E n \in Bins :
       strain_ref(n) < value_cutoff /\ compensation[n] = SENTINEL
  /\ \E n \in Bins :
       ~(strain_ref(n) < value_cutoff) /\ compensation[n] # SENTINEL

(***************************************************************************)
(* C10, as amended.  In a recompute, a bin whose interpolated value is     *)
(* above strain_ref * AdjustTorque + hy_band and whose reference is not    *)
(* below value_cutoff gets (old compensation - current_step) *             *)
(* Proposed_Method_On: the decreased value when the flag is 1, and 0, not  *)
(* the old value, when the flag is 0.                                      *)
(***************************************************************************)
C10_DecreaseTimesFlag ==
  [][last'.recompute
       => \A n \in Bins :
            (RLess(UpperBand(n), strain_avg_ffted'[n])
               /\ ~(strain_ref(n) < value_cutoff))
              => /\ Proposed_Method_On = 1
                      => compensation'[n] = compensation[n] - current_step
                 /\ Proposed_Method_On = 0 => compensation'[n] = 0]_vars

\* a recompute with the flag at 0 has left 0 in a bin above the band,
\* after an earlier recompute had stepped compensations
C10_Witness ==
  /\ last.recompute
  /\ Proposed_Method_On = 0
  /\ learn_left < MaxLearnTicks - 1
  /\ \E n \in Bins :
       /\ RLess(UpperBand(n), strain_avg_ffted[n])
       /\ ~(strain_ref(n) < value_cutoff)
       /\ compensation[n] = 0

(***************************************************************************)
(* C10, as claimed.  In a recompute with Proposed_Method_On = 0, a bin     *)
(* whose interpolated value is above strain_ref * AdjustTorque + hy_band   *)
(* (and whose reference is not below value_cutoff) keeps its compensation. *)
(***************************************************************************)
C10_Original ==
  [][(last'.recompute /\ Proposed_Method_On = 0)
       => \A n \in Bins :
            (RLess(UpperBand(n), strain_avg_ffted'[n])
               /\ ~(strain_ref(n) < value_cutoff))
              => compensation'[n] = compensation[n]]_vars

\* the error of each axis in a controller call: reference - feedback
ImpErr(call) == [ax \in Axes |-> RSub(call.refC[ax], call.fedC[ax])]
\* the squared length of the resonant pair (v[1], v[2]) of an axis vector
Norm2(v) == RPlus(RMul(v[1], v[1]), RMul(v[2], v[2]))

(***************************************************************************)
(* C11, as amended.  In a call of KLAB_curCtrl_output_outVol in which the  *)
(* error of an axis is zero, element 0 of that axis' state vector keeps    *)
(* its value and the pair of elements 1 and 2 keeps its squared length     *)
(* (it is turned, not held, and does not decay); and when the previous     *)
(* call also had zero error on that axis, with the model unchanged in      *)
(* between, element 0 of the axis' output y keeps its value and the pair   *)
(* of elements 1 and 2 of y keeps its squared length.                      *)
(***************************************************************************)
C11_DisturbanceHold ==
  [][imp_last'.op = "KLAB_curCtrl_output_outVol"
       => \A ax \in Axes :
            ImpErr(imp_last')[ax] = RZero
              => /\ ssFunc_states_X'[ax][0] = ssFunc_states_X[ax][0]
                 /\ Norm2(ssFunc_states_X'[ax]) = Norm2(ssFunc_states_X[ax])
                 /\ (imp_last.op = "KLAB_curCtrl_output_outVol"
                       /\ ImpErr(imp_last)[ax] = RZero)
                      => /\ ssFunc_output_Y'[ax][0] = ssFunc_output_Y[ax][0]
                         /\ Norm2(ssFunc_output_Y'[ax])
                              = Norm2(ssFunc_output_Y[ax])]_vars

\* two calls with zero error on an axis have followed a call that left the
\* axis' resonant pair charged, under a model that turns the pair
C11_Witness ==
  /\ imp_last.op = "KLAB_curCtrl_output_outVol"
  /\ imp_left = MaxImpCalls - 3
  /\ ssFunction.A[1][2] # RZero
  /\ \E ax \in Axes :
       /\ ImpErr(imp_last)[ax] = RZero
       /\ ssFunc_states_X[ax][0] # RZero
       /\ Norm2(ssFunc_states_X[ax]) # RZero
       /\ ssFunc_output_Y[ax][0]
            = RMul(ssFunction.C[0][0], ssFunc_states_X[ax][0])

(***************************************************************************)
(* C11, as claimed.  In a call of KLAB_curCtrl_output_outVol in which the  *)
(* error of an axis is zero, the axis' 3-element state vector keeps its    *)
(* value; and when the previous call also had zero error on that axis,     *)
(* the axis' output y keeps its value.                                     *)
(***************************************************************************)
C11_Original ==
  [][imp_last'.op = "KLAB_curCtrl_output_outVol"
       => \A ax \in Axes :
            ImpErr(imp_last')[ax] = RZero
              => /\ ssFunc_states_X'[ax] = ssFunc_states_X[ax]
                 /\ (imp_last.op = "KLAB_curCtrl_output_outVol"
                       /\ ImpErr(imp_last)[ax] = RZero)
                      => ssFunc_output_Y'[ax] = ssFunc_output_Y[ax]]_vars

(***************************************************************************)
(* C12.  Every call of KLAB_curCtrl_output_outVol leaves, for each axis,   *)
(* y = C*x + D*e and x' = A*x + B*e, where x is the axis' state before the *)
(* call and e = reference - feedback of that axis: the output is computed  *)
(* from the state the call found, the state is advanced once, and neither  *)
(* depends on the other two axes.                                          *)
(***************************************************************************)
C12_OutputBeforeUpdate ==
  [][imp_last'.op = "KLAB_curCtrl_output_outVol"
       => \A ax \in Axes :
            LET e == RSub(imp_last'.refC[ax], imp_last'.fedC[ax])
                x == ssFunc_states_X[ax]
                A == ssFunction.A
                B == ssFunction.B
                C == ssFunction.C
                D == ssFunction.D
            IN  /\ ssFunc_output_Y'[ax][0]
                     = RPlus(RMul(C[0][0], x[0]), RMul(D[0], e))
                /\ ssFunc_output_Y'[ax][1]
                     = RPlus(RPlus(RMul(C[1][1], x[1]), RMul(C[1][2], x[2])),
                             RMul(D[1], e))
                /\ ssFunc_output_Y'[ax][2]
                     = RPlus(RPlus(RMul(C[2][1], x[1]), RMul(C[2][2], x[2])),
                             RMul(D[2], e))
                /\ ssFunc_states_X'[ax][0]
                     = RPlus(RMul(A[0][0], x[0]), RMul(B[0], e))
                /\ ssFunc_states_X'[ax][1]
                     = RPlus(RPlus(RMul(A[1][1], x[1]), RMul(A[1][2], x[2])),
                             RMul(B[1], e))
                /\ ssFunc_states_X'[ax][2]
                     = RPlus(RPlus(RMul(A[2][1], x[1]), RMul(A[2][2], x[2])),
                             RMul(B[2], e))]_vars

\* a second call with a non-zero error on an axis whose state the first
\* call had charged: the output it left is not the output of the new state
C12_Witness ==
  /\ imp_last.op = "KLAB_curCtrl_output_outVol"
  /\ imp_left <= MaxImpCalls - 2
  /\ \E ax \in Axes :
       /\ ImpErr(imp_last)[ax] # RZero
       /\ ssFunc_output_Y[ax]
            # KLAB_curCtrl_generate_outputY(ssFunction, ssFunc_states_X[ax],
                                            ImpErr(imp_last)[ax])
       /\ \E other \in Axes \ {ax} :
            ssFunc_states_X[other] # ssFunc_states_X[ax]

(***************************************************************************)
(* C13.  generate_phase_square_reference(theta_on, theta_off, peak, theta) *)
(* with t = theta, or theta + 2*pi when theta is negative, returns peak    *)
(* when theta_on < theta_off and theta_on < t < theta_off, returns peak    *)
(* when theta_on > theta_off and (t > theta_on or t < theta_off), and      *)
(* returns 0 in every other case, for every t when theta_on = theta_off;   *)
(* with theta_on = 300 deg, theta_off = 60 deg and peak = 5 A it returns   *)
(* 5 A at 350 deg and at 30 deg and 0 at 180 deg.                          *)
(***************************************************************************)
C13_SquareWindow ==
  (probe.fn = "generate_phase_square_reference" /\ probe.done)
    => LET on == probe.theta_on
           off == probe.theta_off
           t == IF probe.theta < 0 THEN probe.theta + PI_2 ELSE probe.theta
           inside == \/ on < off /\ on < t /\ t < off
                     \/ on > off /\ (t > on \/ t < off)
       IN  /\ inside => probe.ret = probe.peak
           /\ ~inside => probe.ret = 0
           /\ on = off => probe.ret = 0
           /\ (on = 300 * DEG2RADCOEFF /\ off = 60 * DEG2RADCOEFF
                 /\ probe.peak = 50)
                => /\ probe.theta = 350 * DEG2RADCOEFF => probe.ret = 50
                   /\ probe.theta = 30 * DEG2RADCOEFF => probe.ret = 50
                   /\ probe.theta = 180 * DEG2RADCOEFF => probe.ret = 0

\* a call inside a window that wraps through 0, entered with a negative
\* angle, has returned the peak
C13_Witness ==
  /\ probe.fn = "generate_phase_square_reference"
  /\ probe.done
  /\ probe.theta_on > probe.theta_off
  /\ probe.theta < 0
  /\ probe.theta + PI_2 > probe.theta_on
  /\ probe.peak = 50
  /\ probe.ret = 50

(***************************************************************************)
(* C14.  The word generate_gateSignalSequence_Hysterisis returns lies in   *)
(* 0 .. 4095; its low nibble is the code of phase u, its middle nibble the *)
(* code of phase v and its high nibble the code of phase w, each one of    *)
(* 10, 14, 15 and each the code generate_phase_gateSignalSequence gives    *)
(* for that phase; the word is codeU + 16 * codeV + 256 * codeW.           *)
(***************************************************************************)
C14_GateWordPacking ==
  (probe.fn = "generate_gateSignalSequence_Hysterisis" /\ probe.done)
    => LET word == probe.ret
           nibU == word % 16
           nibV == (word \div 16) % 16
           nibW == (word \div 256) % 16
           code(ph) == generate_phase_gateSignalSequence(
                         probe.refCurrent[ph], probe.fedCurrent[ph],
                         probe.hysterisis_limit)
       IN  /\ word \in 0 .. 4095
           /\ nibU = code("u")
           /\ nibV = code("v")
           /\ nibW = code("w")
           /\ {nibU, nibV, nibW} \subseteq {LOW, HOLD, HIGH}
           /\ word = code("u") + 16 * code("v") + 256 * code("w")

\* a call in which the three phases got three different codes
C14_Witness ==
  /\ probe.fn = "generate_gateSignalSequence_Hysterisis"
  /\ probe.done
  /\ probe.ret = LOW + 16 * HOLD + 256 * HIGH

\* the two outcomes of StrainGaugeRead: processed, or returned early
LearningOps == {"StrainGaugeRead", "StrainGaugeRead return"}

(***************************************************************************)
(* C15.  A control tick whose current sampler fails leaves fedCurrent and  *)
(* Idc as they were, sets no flag (the enable flags, the configuration and *)
(* the learning state are as before), and still computes the reference and *)
(* hands out the gate code computed from the stale feedback; a tick whose  *)
(* sampler delivers stores the sample, and nothing but a delivering tick   *)
(* changes fedCurrent or Idc, so the stale values are those of the last    *)
(* successful sample.                                                      *)
(***************************************************************************)
C15_StaleFeedbackOnFailure ==
  [][/\ (last'.op = "gateControl" /\ ~last'.ad_ok)
          => /\ fedCurrent' = fedCurrent
             /\ Idc' = Idc
             /\ UNCHANGED <<inverter_on, Proposed_Method_On, cfgVars,
                            rotateValue, learnVars>>
             /\ refCurrent'
                  = generate_square_reference(
                      square_phase_deg2rad(theta_on_deg),
                      square_phase_deg2rad(theta_off_deg), square_peak,
                      MAX_PHASE_CURRENT, rotateValue, compensation)
             /\ gate_out'
                  = <<IF inverter_on = 1
                        THEN generate_gateSignalSequence_Hysterisis(
                               refCurrent', fedCurrent, hysterisis_limit)
                        ELSE ALL_HIGH>>
     /\ (fedCurrent' # fedCurrent \/ Idc' # Idc)
          => (last'.op = "gateControl" /\ last'.ad_ok)]_vars

\* an enabled control tick whose sampler failed after an earlier sample had
\* left a feedback other than 0, and whose gate code is not the code that
\* a feedback of 0 would have produced
C15_Witness ==
  /\ last.op = "gateControl"
  /\ ~last.ad_ok
  /\ inverter_on = 1
  /\ fedCurrent.v # 0
  /\ Idc # 0
  /\ gate_out = <<generate_gateSignalSequence_Hysterisis(
                    refCurrent, fedCurrent, hysterisis_limit)>>
  /\ gate_out # <<generate_gateSignalSequence_Hysterisis(
                    refCurrent, [u |-> 0, v |-> 0, w |-> 0],
                    hysterisis_limit)>>

(***************************************************************************)
(* C16.  Whenever a control tick is due it can run, whether the sampler    *)
(* delivers or fails, whatever inverter_on is and whatever the conduction  *)
(* window is; and every control tick has handed exactly one code to the    *)
(* gate output, a number in 0 .. 4095 equal to gateSignalSequence.         *)
(***************************************************************************)
C16_EveryTickOneGateCode ==
  /\ ctl_left > 0 => \A ad \in AdReadings : ENABLED gateControl(ad)
  /\ last.op = "gateControl"
       => /\ Len(gate_out) = 1
          /\ gate_out[1] \in 0 .. 4095
          /\ gate_out[1] = gateSignalSequence

\* a control tick with a failing sampler, a run-enable flag that is neither
\* 0 nor 1 and the degenerate window theta_on = theta_off has handed out
\* its one code
C16_Witness ==
  /\ last.op = "gateControl"
  /\ ~last.ad_ok
  /\ inverter_on = 2
  /\ theta_on_rad = theta_off_rad
  /\ Len(gate_out) = 1

(***************************************************************************)
(* C17.  A control tick leaves the learning engine's state as it was: the  *)
(* running averages, the visit counters, the stable average, the offset,   *)
(* the accumulation-cycle counter, abz_prev, the decimated and the         *)
(* phase-corrected signal, the interpolated table and the compensation     *)
(* table.  The compensation table, the decimated signal, its               *)
(* phase-corrected form and the interpolated table change only in a        *)
(* learning tick that recomputes.                                          *)
(***************************************************************************)
C17_ControlTickFrame ==
  [][/\ last'.op = "gateControl" => UNCHANGED learnVars
     /\ (compensation' # compensation \/ x_fft' # x_fft
           \/ x_fft_neww' # x_fft_neww
           \/ strain_avg_ffted' # strain_avg_ffted)
          => (last'.op = "StrainGaugeRead" /\ last'.recompute)]_vars

\* a control tick has run on a compensation table that a recompute had
\* written, at a bin whose compensation is not 0, and has left it there
C17_Witness ==
  /\ last.op = "gateControl"
  /\ compensation[rotateValue.abz] # 0
  /\ strain_avg_ffted # ZeroTable

(***************************************************************************)
(* C18, as amended.  rotateValue.abz and rotateValue.theta are written by  *)
(* the learning tick, once at the start of every tick (of one that returns *)
(* early as well), from the raw count it reads; the control tick only      *)
(* reads them, and nothing else writes them.                               *)
(***************************************************************************)
C18_PositionWrittenByLearningTick ==
  [][/\ last'.op \in LearningOps
          => /\ rotateValue'.abz
                  = (last'.raw - A_aligned_encoder_count)
                      % (ENCODER_MAX_COUNT + 1)
             /\ rotateValue'.theta * (ENCODER_MAX_COUNT + 1)
                  = PI_2 * rotateValue'.abz
     /\ last'.op = "gateControl" => rotateValue' = rotateValue
     /\ rotateValue' # rotateValue => last'.op \in LearningOps]_vars

\* a control tick has computed its reference at a position that a learning
\* tick had written
C18_Witness ==
  /\ last.op = "gateControl"
  /\ rotateValue.abz = 512
  /\ rotateValue.theta = PI_2 \div 2
  /\ SCOPE.abz = 512

(***************************************************************************)
(* C18, as claimed.  The position and the angle are written by the control *)
(* tick, once per control tick, and a learning tick only reads them.       *)
(***************************************************************************)
C18_Original ==
  [][/\ last'.op \in LearningOps => rotateValue' = rotateValue
     /\ rotateValue' # rotateValue => last'.op = "gateControl"]_vars

\* x fits a 32-bit signed integer
InInt32(x) == -INT32_MAX - 1 <= x /\ x <= INT32_MAX

(***************************************************************************)
(* C19, as amended.  For a tick count and a stored timer in 0 .. 1e9 - 1,  *)
(* KLAB_speedCalc_update_speed uses elapsed = tick_count - timer when      *)
(* tick_count > timer and elapsed = tick_count - timer + 1e9 otherwise,    *)
(* so that equal counts give 1e9 and the elapsed count is never 0; every   *)
(* intermediate value fits 32 bits; rpm is 1e9 / elapsed; and the tick     *)
(* count is stored as the new timer.                                       *)
(***************************************************************************)
C19_ElapsedTicks ==
  (probe.fn = "KLAB_speedCalc_update_speed" /\ probe.done)
    => LET t == probe.timerCount
           l == probe.timer_before
           elapsed == IF t > l THEN t - l ELSE t - l + TICK_MODULUS
       IN  /\ probe.timerDiff = elapsed
           /\ elapsed \in 1 .. TICK_MODULUS
           /\ (t = l => elapsed = TICK_MODULUS)
           /\ InInt32(t - l)
           /\ InInt32(t - l + TICK_MODULUS)
           /\ probe.rotValue.rpm = RNorm(RPM_TICKS, elapsed)
           /\ probe.rotValue.timer = t

\* a second call with the count of the first: the elapsed count is 1e9 and
\* the speed 1 rpm
C19_Witness ==
  /\ probe.fn = "KLAB_speedCalc_update_speed"
  /\ probe.calls_left = MaxSpeedCalls - 2
  /\ probe.timerCount = probe.timer_before
  /\ probe.timerCount > 0
  /\ probe.timerDiff = TICK_MODULUS
  /\ probe.rotValue.rpm = R(1)

(***************************************************************************)
(* C19, as claimed.  KLAB_speedCalc_update_speed uses                      *)
(* elapsed = tick_count - timer when tick_count >= timer, equal counts     *)
(* included, and elapsed = tick_count - timer + 1e9 otherwise, and stores  *)
(* the tick count as the new timer.                                        *)
(***************************************************************************)
C19_Original ==
  (probe.fn = "KLAB_speedCalc_update_speed" /\ probe.done)
    => LET t == probe.timerCount
           l == probe.timer_before
           elapsed == IF t >= l THEN t - l ELSE t - l + TICK_MODULUS
       IN  /\ probe.timerDiff = elapsed
           /\ probe.rotValue.timer = t

(***************************************************************************)
(* C20.  After a position update with a raw count and an alignment offset  *)
(* in 0 .. 1023, rotateValue.abz is (raw - offset) mod 1024 and lies in    *)
(* 0 .. 1023, rotateValue.theta is 2*pi * abz / 1024 and lies in           *)
(* [0, 2*pi), and every index at which a table of length 1024 is read or   *)
(* written lies in 0 .. 1023.                                              *)
(***************************************************************************)
C20_PositionInRange ==
  (probe.fn = "update_position" /\ probe.done)
    => LET abz == probe.rotateValue.abz
           theta == probe.rotateValue.theta
       IN  /\ abz \in 0 .. ENCODER_MAX_COUNT
           /\ \E k \in {-1, 0} :
                abz = probe.raw - probe.A_aligned_encoder_count
                        - k * (ENCODER_MAX_COUNT + 1)
           /\ theta * (ENCODER_MAX_COUNT + 1) = PI_2 * abz
           /\ 0 <= theta /\ theta < PI_2
           /\ \A i \in probe.indexes : 0 <= i /\ i <= ENCODER_MAX_COUNT
           /\ abz \in probe.indexes

\* an update with the raw count below the alignment offset: the position
\* wraps to the top of the range
C20_Witness ==
  /\ probe.fn = "update_position"
  /\ probe.done
  /\ probe.raw = 0
  /\ probe.A_aligned_encoder_count = 1
  /\ probe.rotateValue.abz = ENCODER_MAX_COUNT
  /\ probe.rotateValue.theta = PI_2 - THETA_PER_COUNT

(***************************************************************************)
(* C21.  For a real sequence x with imaginary part y = 0, idft applied to  *)
(* the result of dft gives x back as its real output and 0 as its          *)
(* imaginary output; the forward transform uses +cos for the real and -sin *)
(* for the imaginary part of a real input (the unit impulse at j has       *)
(* a[k] = cos(2*pi*j*k/n), b[k] = -sin(2*pi*j*k/n)), the inverse the       *)
(* negated sine and the factor 1/n; and neither call changes the arrays it *)
(* reads.                                                                  *)
(***************************************************************************)
C21_DftIdftIdentity ==
  /\ [](probe.fn = "dft" =>
          LET n == probe.n
          IN  /\ probe.calls >= 1 =>
                   \A j \in 0 .. n - 1 :
                     probe.x_fft = Impulse(n, j) =>
                       \A k \in 0 .. n - 1 :
                         /\ FEq(probe.a_fft[k],
                                CosTimes(GridAngle(j, k, n), FRat(1, 1)))
                         /\ FEq(probe.b_fft[k],
                                FNeg(SinTimes(GridAngle(j, k, n), FRat(1, 1))))
              /\ probe.calls = 2 =>
                   \A k \in 0 .. n - 1 :
                     /\ FEq(probe.x_fft_new[k], probe.x_fft[k])
                     /\ FEq(probe.y_fft_new[k], FRat(0, 1)))
  /\ [][probe.fn = "dft" =>
          /\ probe'.x_fft = probe.x_fft
          /\ probe'.y_fft = probe.y_fft
          /\ probe.calls = 1 =>
               (probe'.a_fft = probe.a_fft /\ probe'.b_fft = probe.b_fft)]_vars

\* the full length N_FFT: a ramp, whose spectrum has imaginary parts, has
\* come back from the two transforms
C21_Witness ==
  /\ probe.fn = "dft"
  /\ probe.calls = 2
  /\ probe.n = N_FFT
  /\ probe.x_fft[0] = FRat(-3, 1)
  /\ probe.x_fft[N_FFT - 1] = FRat(N_FFT - 4, 1)
  /\ \E k \in 0 .. N_FFT - 1 : ~FEq(probe.b_fft[k], FRat(0, 1))
  /\ \A k \in 0 .. N_FFT - 1 : FEq(probe.x_fft_new[k], probe.x_fft[k])

(***************************************************************************)
(* C22.  KLAB_uvw2dq0 followed by KLAB_dq02uvw with the same angle gives   *)
(* (u, v, w) back; the forward step writes d, q, zero only and the inverse *)
(* step u, v, w only; and for u = 1, v = 0, w = -1 at angle 0 the forward  *)
(* step gives d = sqrt(6)/2 = 1.2247..., q = sqrt(2)/2 = 0.7071...,        *)
(* zero = 0.                                                               *)
(***************************************************************************)
C22_FrameRoundTrip ==
  /\ [](probe.fn = "KLAB_uvw2dq0" =>
          /\ probe.calls = 2 =>
               /\ probe.elecValue.u = probe.given.u
               /\ probe.elecValue.v = probe.given.v
               /\ probe.elecValue.w = probe.given.w
          /\ (/\ probe.calls = 1
              /\ probe.given.u = SRat(1, 1)
              /\ probe.given.v = SRat(0, 1)
              /\ probe.given.w = SRat(-1, 1)
              /\ probe.rotValue = [cos |-> SRat(1, 1), sin |-> SRat(0, 1)])
               => /\ probe.elecValue.d = SNorm(<<0, 0, 0, 1>>, 2)
                  /\ probe.elecValue.q = SNorm(<<0, 1, 0, 0>>, 2)
                  /\ probe.elecValue.zero = SRat(0, 1))
  /\ [][probe.fn = "KLAB_uvw2dq0" =>
          /\ probe'.rotValue = probe.rotValue
          /\ probe.calls = 0 =>
               /\ probe'.elecValue.u = probe.elecValue.u
               /\ probe'.elecValue.v = probe.elecValue.v
               /\ probe'.elecValue.w = probe.elecValue.w
          /\ probe.calls = 1 =>
               /\ probe'.elecValue.d = probe.elecValue.d
               /\ probe'.elecValue.q = probe.elecValue.q
               /\ probe'.elecValue.zero = probe.elecValue.zero]_vars

\* a round trip at an angle that is no quarter turn, through d, q and zero
\* that are all different from 0
C22_Witness ==
  /\ probe.fn = "KLAB_uvw2dq0"
  /\ probe.calls = 2
  /\ probe.rotValue = [cos |-> SRat(3, 5), sin |-> SRat(4, 5)]
  /\ probe.given.u = SRat(1, 1)
  /\ probe.given.v = SRat(0, 1)
  /\ probe.given.w = SRat(1, 1)
  /\ probe.elecValue.d # SRat(0, 1)
  /\ probe.elecValue.q # SRat(0, 1)
  /\ probe.elecValue.zero # SRat(0, 1)
  /\ probe.elecValue.u = probe.given.u

\* s and c can be the sine and the cosine of the angle theta: their squares
\* add up to 1, and at the quarter turns they are 0, 1 and -1
IsSineCosineOf(theta, s, c) ==
  /\ RPlus(RMul(s, s), RMul(c, c)) = R(1)
  /\ theta = 0 => (s = R(0) /\ c = R(1))
  /\ theta = PI_2 \div 4 => (s = R(1) /\ c = R(0))
  /\ theta = PI_2 \div 2 => (s = R(0) /\ c = R(-1))
  /\ theta = 3 * (PI_2 \div 4) => (s = R(-1) /\ c = R(0))

(***************************************************************************)
(* C23, as claimed.  After every position update, rotateValue.sin and      *)
(* rotateValue.cos are the sine and the cosine of rotateValue.theta, the   *)
(* angle just derived from the count.                                      *)
(***************************************************************************)
C23_CachedSineCosine ==
  last.op \in LearningOps
    => IsSineCosineOf(rotateValue.theta, rotateValue.sin, rotateValue.cos)

\* a position update to bin 512, half a turn, has left sin = cos = 0, which
\* are the sine and cosine of no angle
C23_Witness ==
  /\ last.op \in LearningOps
  /\ rotateValue.abz = 512
  /\ rotateValue.theta = PI_2 \div 2
  /\ rotateValue.sin = RZero
  /\ rotateValue.cos = RZero

(***************************************************************************)
(* C24.  A control tick that preempts the compensation loop reads, for     *)
(* its bin, either the table entry as the loop found it or the entry the   *)
(* loop leaves, never a value in between.  The loop body stores to the     *)
(* entry up to three times (lines 502, 507 and 512), so the statement does *)
(* not hold of the code: between the stores the entry holds a stepped      *)
(* value that the third store replaces by the sentinel.                    *)
(***************************************************************************)
\* compensation[n] as the running compensation loop leaves it
LoopFinal(n) ==
  generate_compensation(loop_before, strain_avg_ffted, Proposed_Method_On,
                        current_step, value_cutoff)[n]

\* StrainGaugeRead stands inside the pass of the loop for its bin
InLoopPass == pc.at \in {"loop 2", "loop 3"}

C24_BeforeOrFinal ==
  [][(last'.op = "gateControl" /\ pc.at \in LoopStatements \cup {"end"})
       => compensation[rotateValue.abz]
            \in {loop_before[rotateValue.abz], LoopFinal(rotateValue.abz)}]_vars

\* a control tick has run inside the pass for its bin, and has taken into the
\* reference a table entry that is neither the old nor the final one
C24_Witness ==
  /\ last.op = "gateControl"
  /\ InLoopPass
  /\ compensation[rotateValue.abz] # loop_before[rotateValue.abz]
  /\ compensation[rotateValue.abz] # LoopFinal(rotateValue.abz)
  /\ SCOPE.compensation = compensation[rotateValue.abz]

(***************************************************************************)
(* C25.  In every control tick the angle and the bin of rotateValue are of *)
(* the same sample: theta = 2 pi abz / N.  Lines 393 and 394 are two       *)
(* stores, so the statement does not hold of a control tick that runs      *)
(* between them.                                                           *)
(***************************************************************************)
C25_SameSample ==
  [][last'.op = "gateControl"
       => rotateValue.theta = update_theta(rotateValue.abz)]_vars

\* a control tick has run between the two stores
C25_Witness ==
  /\ last.op = "gateControl"
  /\ pc.at = "position"
  /\ rotateValue.theta # update_theta(rotateValue.abz)

(***************************************************************************)
(* C26.  The phase correction keeps the conjugate symmetry of the spectrum *)
(* of a real signal: bin 0 is not shifted, the shift of bin M - i is the   *)
(* negative of the shift of bin i for every i in 1 .. M - 1, and the       *)
(* magnitudes are unmodified.  Bin M/2 is its own mirror and is shifted by *)
(* +c * (M/2) * speed, so the statement does not hold of the code for a    *)
(* speed other than 0.                                                     *)
(***************************************************************************)
\* the shift the finished loop has applied to bin i
AppliedShift(i) == probe.fft_neww.phase[i].rad - probe.Z.phase[i].rad

\* phase and magnitude are those of the spectrum of a real signal: bin M - i
\* is the conjugate of bin i, modulo 2 pi, where the magnitude is not 0
ConjugateSymmetric(phase, magnitude) ==
  \A i \in FftBins :
    LET j == (N_FFT - i) % N_FFT
    IN  /\ magnitude[j] = magnitude[i]
        /\ magnitude[i] # 0 =>
             /\ (phase[i].turn + phase[j].turn) % EIGHTHS = 0
             /\ phase[i].rad + phase[j].rad = 0

C26_ShiftAntisymmetric ==
  (probe.fn = "phase" /\ probe.i_fft = N_FFT) =>
    /\ AppliedShift(0) = 0
    /\ \A i \in 1 .. N_FFT - 1 : AppliedShift(N_FFT - i) = -AppliedShift(i)
    /\ probe.fft_neww.magnitude = probe.Z.magnitude
    /\ ConjugateSymmetric(probe.fft_neww.phase, probe.fft_neww.magnitude)

\* the loop has run at the default speed on the spectrum of a real signal
\* with a component at bin M/2, and has left a spectrum that is not one of
\* a real signal
C26_Witness ==
  /\ probe.fn = "phase" /\ probe.i_fft = N_FFT
  /\ probe.rpm = 300
  /\ ConjugateSymmetric(probe.Z.phase, probe.Z.magnitude)
  /\ probe.Z.magnitude[N_FFT \div 2] # 0
  /\ AppliedShift(N_FFT \div 2) # 0
  /\ ~ConjugateSymmetric(probe.fft_neww.phase, probe.fft_neww.magnitude)

(***************************************************************************)
(* C27.  After a recompute, with s = N / M, m = i div s and n = i mod s,   *)
(* strain_avg_ffted[i] = x[m] * (s - n) / s + x[(m + 1) mod M] * n / s for *)
(* every bin i, x being the shifted decimated signal x_fft_neww: at the    *)
(* bins i = m * s the value is x[m] itself, the last segment runs from     *)
(* x[M - 1] to x[0], and no index outside 0 .. M - 1 is read.              *)
(***************************************************************************)
\* a * p / s + b * q / s
WeightedSum(a, p, b, q, s) == RAdd(RScale(a, p, s), RScale(b, q, s))

C27_InterpolationWraps ==
  [][last'.recompute
       => LET s == TABLE_LEN \div N_FFT
              x == x_fft_neww'
          IN  /\ \A i \in Bins :
                   /\ i \div s \in FftBins
                   /\ ((i \div s) + 1) % N_FFT \in FftBins
                   /\ strain_avg_ffted'[i]
                        = WeightedSum(x[i \div s], s - (i % s),
                                      x[((i \div s) + 1) % N_FFT], i % s, s)
              /\ \A m \in FftBins : strain_avg_ffted'[m * s] = x[m]
              /\ strain_avg_ffted'[TABLE_LEN - 1]
                   = WeightedSum(x[N_FFT - 1], 1, x[0], s - 1, s)]_vars

\* a recompute has interpolated a signal whose last and first points differ:
\* the last bin lies between the two, off both
C27_Witness ==
  /\ last.recompute
  /\ x_fft_neww[N_FFT - 1] # x_fft_neww[0]
  /\ strain_avg_ffted[TABLE_LEN - 1] # x_fft_neww[N_FFT - 1]
  /\ strain_avg_ffted[TABLE_LEN - 1] # x_fft_neww[0]
  /\ strain_avg_ffted[TABLE_LEN - N_FFT] = x_fft_neww[N_FFT - 1]

(***************************************************************************)
(* C28.  With a horizon that stays at H >= 0, every visit counter is in    *)
(* 0 .. H at the end of every learning tick: the tick that takes a counter *)
(* above H resets it before it returns, and the reset leaves all visit     *)
(* counters and all running averages at 0 together.                        *)
(***************************************************************************)
C28_CountersWithinHorizon ==
  /\ \A n \in Bins : avg_record_times[n] \in 0 .. avg_max_count
  /\ last.snapshot
       => /\ avg_record_times = ZeroCounts
          /\ strain_avg_temp = ZeroTable

\* the third visit of a behaviour, the second one of its bin, has taken the
\* counter of the bin above the horizon 1 and has reset the tables, the
\* counter and the running average of the other bin visited among them
C28_Witness ==
  /\ last.op = "StrainGaugeRead"
  /\ last.snapshot
  /\ avg_max_count = 1
  /\ learn_left = MaxLearnTicks - 3
  /\ last.prev # rotateValue.abz
  /\ avg_record_times[last.prev] = 0
  /\ strain_avg_temp[last.prev] = RZero
  /\ avg_record_times[rotateValue.abz] = 0

(***************************************************************************)
(* C29.  A learning tick whose bin is the bin of the previous processed    *)
(* sample changes nothing in the learning engine: no strain sample is      *)
(* taken and no visit counter, running average, stable average, offset,    *)
(* cycle counter or compensation entry is modified.  Every other tick is   *)
(* processed and becomes the previous processed sample, so that two        *)
(* samples accumulated one after the other are of different bins.          *)
(***************************************************************************)
C29_SameBinTickIsIdle ==
  [][last'.op \in LearningOps
       => LET bin == update_position(last'.raw)
          IN  IF bin = abz_prev
                THEN /\ last'.op = "StrainGaugeRead return"
                     /\ UNCHANGED learnVars
                     /\ acc' = acc
                ELSE /\ last'.op = "StrainGaugeRead"
                     /\ last'.prev # bin
                     /\ abz_prev' = bin
                     /\ bin \in DOMAIN acc' \/ last'.snapshot]_vars

\* a tick has been returned early with a sample accumulated at its bin and
\* with room left under the horizon
C29_Witness ==
  /\ last.op = "StrainGaugeRead return"
  /\ abz_prev = rotateValue.abz
  /\ avg_record_times[rotateValue.abz] = 1
  /\ avg_max_count > 1
  /\ rotateValue.abz \in DOMAIN acc

(***************************************************************************)
(* C30.  Every array read of scope() has its subscript inside the array,   *)
(* for every position bin 0 .. N - 1, the reads of phase and magnitude     *)
(* included.  These two arrays have N_FFT entries and are read at          *)
(* rotateValue.abz (lines 291 and 292), so the statement does not hold of  *)
(* the code for a bin from N_FFT on.                                       *)
(***************************************************************************)
\* the number of entries of the arrays scope() reads
ScopeArrays ==
  [strain_avg |-> ENCODER_MAX_COUNT + 1, strain_ref |-> ENCODER_MAX_COUNT + 1,
   compensation |-> ENCODER_MAX_COUNT + 1, phase |-> N_FFT,
   magnitude |-> N_FFT, strain_avg_ffted |-> ENCODER_MAX_COUNT + 1]

\* the subscript of each array read of scope(), lines 288-293
scope_subscripts(rot) == [a \in DOMAIN ScopeArrays |-> rot.abz]

\* the steps that end with a call of scope()
ScopeCallers == {"gateControl", "StrainGaugeRead"}

C30_ScopeReadsInBounds ==
  last.op \in ScopeCallers
    => \A a \in DOMAIN ScopeArrays :
         scope_subscripts(rotateValue)[a] \in 0 .. ScopeArrays[a] - 1

\* scope() has run from the control tick at a bin of the table that is
\* past the end of phase and magnitude
C30_Witness ==
  /\ last.op = "gateControl"
  /\ SCOPE.abz = rotateValue.abz
  /\ rotateValue.abz \in Bins
  /\ scope_subscripts(rotateValue).strain_avg < ScopeArrays.strain_avg
  /\ scope_subscripts(rotateValue).phase >= ScopeArrays.phase
  /\ scope_subscripts(rotateValue).magnitude >= ScopeArrays.magnitude

====
